---- MODULE Spec2Model ----
(***************************************************************************)
(* smart-commit: the change classifier (lib/diff-analyzer.js), the message *)
(* synthesizer and validator (lib/message-generator.js) and the command    *)
(* line workflow (the SmartCommitAgent script).                            *)
(*                                                                         *)
(* JavaScript strings are modelled as sequences of one-character strings,  *)
(* so that the regular expressions, split, trim, basename and the template *)
(* literals of the source are computed character by character.             *)
(***************************************************************************)
EXTENDS Integers, Sequences, FiniteSets, TLC

VARIABLES
    message,      \* validateMessage: the message handed to the validator
    validation,   \* validateMessage: its return value [ok, errors], None before the call
    analysis,     \* the Analysis the synthesizer is called with
    actionVerbs,  \* MessageGenerator.actionVerbs: the shared type -> verb list table
    apiKey,       \* process.env.OPENAI_API_KEY is set
    pending,      \* generateGPTMessages calls suspended at their await
    returned,     \* the last call that completed: its arguments and its result
    git,          \* the repository as the git commands report it
    lastIndex,    \* DiffAnalyzer.changePatterns: the lastIndex of each RegExp object
    calls,        \* the classifier and synthesizer calls made so far, with their results
    options,      \* program.opts(): the command line of the run
    run           \* the run of main: where it stands, its locals, what it did, its exit code

validatorVars == <<message, validation>>

synthVars == <<analysis, actionVerbs, apiKey, pending, returned>>

classifierVars == <<git, lastIndex, calls>>

cliVars == <<options, run>>

vars == <<message, validation, analysis, actionVerbs, apiKey, pending, returned,
          git, lastIndex, calls, options, run>>

\* An optional value (null, undefined or a value) is a sequence of at most one element.
None == <<>>

Some(x) == <<x>>

Get(o) == o[1]

-----------------------------------------------------------------------------
(* Strings *)

\* A string literal as a sequence of its characters.
Chars(s) == [i \in 1..Len(s) |-> SubSeq(s, i, i)]

Drop(s, n) == SubSeq(s, n + 1, Len(s))

Take(s, n) == SubSeq(s, 1, n)

\* The characters i..j of s that exist (substring, with the indices clamped).
Slice(s, i, j) ==
    LET lo == IF i < 1 THEN 1 ELSE i
        hi == IF j > Len(s) THEN Len(s) ELSE j
    IN  IF lo > hi THEN <<>> ELSE SubSeq(s, lo, hi)

StartsWith(s, p) == Len(s) >= Len(p) /\ Take(s, Len(p)) = p

EndsWith(s, p) == Len(s) >= Len(p) /\ Drop(s, Len(s) - Len(p)) = p

\* The positions at which p occurs in s.
Occurrences(s, p) == {i \in 1..(Len(s) - Len(p) + 1) : SubSeq(s, i, i + Len(p) - 1) = p}

Includes(s, p) == Occurrences(s, p) # {}

Min(S) == CHOOSE m \in S : \A n \in S : m <= n

Max(S) == CHOOSE m \in S : \A n \in S : m >= n

\* indexOf: the first position of p in s, 0 when there is none.
IndexOf(s, p) == IF Includes(s, p) THEN Min(Occurrences(s, p)) ELSE 0

LastIndexOf(s, p) == IF Includes(s, p) THEN Max(Occurrences(s, p)) ELSE 0

UpperCase == {"A", "B", "C", "D", "E", "F", "G", "H", "I", "J", "K", "L", "M",
              "N", "O", "P", "Q", "R", "S", "T", "U", "V", "W", "X", "Y", "Z"}

\* White space of String.prototype.trim and of \s.
WhiteSpace == {" ", "\t", "\n", "\r", "\f"}

\* The characters "." of a regular expression does not match.
LineTerminators == {"\n", "\r"}

Dot(c) == c \notin LineTerminators

TrimStart(s) ==
    IF \A i \in 1..Len(s) : s[i] \in WhiteSpace THEN <<>>
    ELSE Drop(s, Min({i \in 1..Len(s) : s[i] \notin WhiteSpace}) - 1)

TrimEnd(s) ==
    IF \A i \in 1..Len(s) : s[i] \in WhiteSpace THEN <<>>
    ELSE Take(s, Max({i \in 1..Len(s) : s[i] \notin WhiteSpace}))

Trim(s) == TrimEnd(TrimStart(s))

\* s.split(sep)[0]: the text before the first separator.
SplitFirst(s, sep) == IF Includes(s, sep) THEN Take(s, IndexOf(s, sep) - 1) ELSE s

\* s.split(sep, 2)[1] for a string that includes sep: the text between the
\* first separator and the second one (or the end of the string).
SplitSecond(s, sep) == SplitFirst(Drop(s, IndexOf(s, sep) + Len(sep) - 1), sep)

\* The elements of xs joined with sep (Array.prototype.join).
RECURSIVE Join(_, _)
Join(xs, sep) ==
    IF xs = <<>> THEN <<>>
    ELSE IF Len(xs) = 1 THEN xs[1]
    ELSE xs[1] \o sep \o Join(Tail(xs), sep)

Digit(d) == <<"0", "1", "2", "3", "4", "5", "6", "7", "8", "9">>[d + 1]

\* The decimal digits of a natural number, as a template literal prints it.
RECURSIVE NumberToString(_)
NumberToString(n) == IF n < 10 THEN <<Digit(n)>> ELSE Append(NumberToString(n \div 10), Digit(n % 10))

\* s.replace(/[_-]/g, ' ')
ReplaceSeparators(s) == [i \in 1..Len(s) |-> IF s[i] \in {"_", "-"} THEN " " ELSE s[i]]

\* path.basename of a POSIX path: trailing slashes are dropped, then the text
\* after the last slash is taken.
RECURSIVE Basename(_)
Basename(p) ==
    IF p # <<>> /\ p[Len(p)] = "/" THEN Basename(Take(p, Len(p) - 1))
    ELSE Drop(p, LastIndexOf(p, <<"/">>))

\* The position of the dot that starts the extension of a base name, 0 when it
\* has none (no dot, or only a leading dot).
ExtStart(base) ==
    LET i == LastIndexOf(base, <<".">>)
    IN  IF i <= 1 \/ base = Chars("..") THEN 0 ELSE i

\* path.extname(p)
ExtName(p) ==
    LET base == Basename(p)
    IN  IF ExtStart(base) = 0 THEN <<>> ELSE Drop(base, ExtStart(base) - 1)

\* path.parse(base).name
ParseName(base) == IF ExtStart(base) = 0 THEN base ELSE Take(base, ExtStart(base) - 1)

\* A JavaScript object: a function from its own keys. obj[key] is undefined
\* (None) for a key it does not have.
Lookup(obj, key) == IF key \in DOMAIN obj THEN Some(obj[key]) ELSE None

-----------------------------------------------------------------------------
(* Validator: MessageGenerator.validateMessage *)

\* The alternatives of the subject regular expression, in its order.
SubjectTypes ==
    <<Chars("feat"), Chars("fix"), Chars("docs"), Chars("style"), Chars("refactor"),
      Chars("perf"), Chars("test"), Chars("build"), Chars("ci"), Chars("chore"),
      Chars("revert")>>

MaxSubjectLength == 72

ErrFormat == "Subject line doesn't follow conventional commit format"

ErrLength == "Subject line is too long (should be <= 72 characters)"

ErrCapital == "Description should start with lowercase letter"

ErrPeriod == "Subject line should not end with a period"

\* /: .+/ at the start of r.
MatchesColonDescription(r) ==
    Len(r) >= 3 /\ r[1] = ":" /\ r[2] = " " /\ Dot(r[3])

\* /(\(.+\))?: .+/ at the start of r: the group is tried first, with every
\* length of its .+, and then skipped.
MatchesScopeColonDescription(r) ==
    \/ /\ Len(r) >= 3
       /\ r[1] = "("
       /\ \E k \in 3..Len(r) :
            /\ r[k] = ")"
            /\ \A i \in 2..(k - 1) : Dot(r[i])
            /\ MatchesColonDescription(Drop(r, k))
    \/ MatchesColonDescription(r)

\* /^(feat|fix|docs|style|refactor|perf|test|build|ci|chore|revert)(\(.+\))?: .+/.test(subject)
SubjectFormatTest(subject) ==
    \E t \in 1..Len(SubjectTypes) :
        /\ StartsWith(subject, SubjectTypes[t])
        /\ MatchesScopeColonDescription(Drop(subject, Len(SubjectTypes[t])))

\* if (subject && subject.includes(':')) { description = subject.split(':', 2)[1].trim();
\*     if (description && /[A-Z]/.test(description[0])) ... }
CapitalTest(subject) ==
    /\ Len(subject) > 0
    /\ Includes(subject, <<":">>)
    /\ LET description == Trim(SplitSecond(subject, <<":">>))
       IN  Len(description) > 0 /\ description[1] \in UpperCase

\* A validator that stops at the first failed check.
validateMessage_SkipsLaterChecks(msg) ==
    LET subject == SplitFirst(msg, <<"\n">>)
        errors ==
            IF ~SubjectFormatTest(subject) THEN <<ErrFormat>>
            ELSE IF Len(subject) > MaxSubjectLength THEN <<ErrLength>>
            ELSE IF CapitalTest(subject) THEN <<ErrCapital>>
            ELSE IF EndsWith(subject, <<".">>) THEN <<ErrPeriod>>
            ELSE <<>>
    IN  [ok |-> Len(errors) = 0, errors |-> errors]

\* The subject is the first line (lines[0] || ''), and every failed check
\* pushes its message; the result is [errors.length === 0, errors].
validateMessage(msg) ==
    LET subject == SplitFirst(msg, <<"\n">>)
        errors ==
            (IF ~SubjectFormatTest(subject) THEN <<ErrFormat>> ELSE <<>>)
            \o (IF Len(subject) > MaxSubjectLength THEN <<ErrLength>> ELSE <<>>)
            \o (IF CapitalTest(subject) THEN <<ErrCapital>> ELSE <<>>)
            \o (IF EndsWith(subject, <<".">>) THEN <<ErrPeriod>> ELSE <<>>)
    IN  [ok |-> Len(errors) = 0, errors |-> errors]

-----------------------------------------------------------------------------
(* Synthesizer: MessageGenerator.generateSubject and the functions it calls *)

\* constants.js, TYPE_MAPPING: the change type of the analysis to the commit type.
TYPE_MAPPING ==
    (Chars("feature") :> Chars("feat")) @@ (Chars("fix") :> Chars("fix"))
    @@ (Chars("refactor") :> Chars("refactor")) @@ (Chars("docs") :> Chars("docs"))
    @@ (Chars("style") :> Chars("style")) @@ (Chars("test") :> Chars("test"))
    @@ (Chars("chore") :> Chars("chore"))

\* this.typeMapping[analysis.change_type] || 'feat'
CommitTypeOf(change_type) ==
    IF Lookup(TYPE_MAPPING, change_type) # None /\ TYPE_MAPPING[change_type] # <<>>
    THEN TYPE_MAPPING[change_type]
    ELSE Chars("feat")

\* this.actionVerbs[commitType] || ['update']
VerbsOf(verbTable, commitType) ==
    IF Lookup(verbTable, commitType) # None THEN verbTable[commitType]
    ELSE <<Chars("update")>>

\* verbs[0] in a template literal: an empty list prints "undefined".
FirstVerb(verbs) == IF verbs = <<>> THEN Chars("undefined") ELSE verbs[1]

\* A clean filename that keeps the extension.
_getCleanFilename_KeepsExtension(filepath) == ReplaceSeparators(Basename(filepath))

_getCleanFilename(filepath) == ReplaceSeparators(ParseName(Basename(filepath)))

\* A description that treats deletions like any other change: the verb and
\* the number of files.
Describe_DeletionsUseVerb(status, entities, commitType, verb) ==
    verb \o <<" ">>
        \o NumberToString(Len(status.added) + Len(status.modified) + Len(status.deleted))
        \o Chars(" files")

\* A description that lists the entities only up to two of them.
Describe_ListsUpToTwo(status, entities, commitType, verb) ==
    LET nAdded    == Len(status.added)
        nModified == Len(status.modified)
        nDeleted  == Len(status.deleted)
        totalFiles == nAdded + nModified + nDeleted
        allFiles  == status.added \o status.modified \o status.deleted
    IN  IF nAdded > 0 /\ nModified = 0 /\ nDeleted = 0 THEN
            IF nAdded = 1
            THEN verb \o <<" ">> \o _getCleanFilename(status.added[1])
            ELSE verb \o <<" ">> \o NumberToString(nAdded) \o Chars(" new files")
        ELSE IF nDeleted > 0 /\ nAdded = 0 /\ nModified = 0 THEN
            IF nDeleted = 1
            THEN Chars("remove ") \o _getCleanFilename(status.deleted[1])
            ELSE Chars("remove ") \o NumberToString(nDeleted) \o Chars(" files")
        ELSE IF nModified > 0 /\ nAdded = 0 /\ nDeleted = 0 THEN
            IF Len(entities) > 0 THEN
                IF Len(entities) = 1
                THEN verb \o <<" ">> \o entities[1] \o Chars(" function")
                ELSE IF Len(entities) < 3
                THEN verb \o <<" ">> \o Join(entities, Chars(", ")) \o Chars(" functions")
                ELSE verb \o Chars(" multiple functions")
            ELSE IF nModified = 1
            THEN verb \o <<" ">> \o _getCleanFilename(status.modified[1])
            ELSE verb \o <<" ">> \o NumberToString(nModified) \o Chars(" files")
        ELSE
            IF Len(entities) > 0
               /\ commitType \in {Chars("feat"), Chars("fix"), Chars("refactor")}
            THEN IF Len(entities) = 1
                 THEN verb \o <<" ">> \o entities[1]
                 ELSE verb \o <<" ">> \o entities[1] \o Chars(" and related functionality")
            ELSE IF totalFiles = 1
            THEN verb \o <<" ">> \o _getCleanFilename(allFiles[1])
            ELSE verb \o <<" ">> \o NumberToString(totalFiles) \o Chars(" files")

\* A description whose mixed branch names the entity whatever the commit type.
Describe_EntitiesForEveryType(status, entities, commitType, verb) ==
    LET nAdded    == Len(status.added)
        nModified == Len(status.modified)
        nDeleted  == Len(status.deleted)
        totalFiles == nAdded + nModified + nDeleted
        allFiles  == status.added \o status.modified \o status.deleted
    IN  IF nAdded > 0 /\ nModified = 0 /\ nDeleted = 0 THEN
            IF nAdded = 1
            THEN verb \o <<" ">> \o _getCleanFilename(status.added[1])
            ELSE verb \o <<" ">> \o NumberToString(nAdded) \o Chars(" new files")
        ELSE IF nDeleted > 0 /\ nAdded = 0 /\ nModified = 0 THEN
            IF nDeleted = 1
            THEN Chars("remove ") \o _getCleanFilename(status.deleted[1])
            ELSE Chars("remove ") \o NumberToString(nDeleted) \o Chars(" files")
        ELSE IF nModified > 0 /\ nAdded = 0 /\ nDeleted = 0 THEN
            IF Len(entities) > 0 THEN
                IF Len(entities) = 1
                THEN verb \o <<" ">> \o entities[1] \o Chars(" function")
                ELSE IF Len(entities) <= 3
                THEN verb \o <<" ">> \o Join(entities, Chars(", ")) \o Chars(" functions")
                ELSE verb \o Chars(" multiple functions")
            ELSE IF nModified = 1
            THEN verb \o <<" ">> \o _getCleanFilename(status.modified[1])
            ELSE verb \o <<" ">> \o NumberToString(nModified) \o Chars(" files")
        ELSE
            IF Len(entities) > 0
            THEN IF Len(entities) = 1
                 THEN verb \o <<" ">> \o entities[1]
                 ELSE verb \o <<" ">> \o entities[1] \o Chars(" and related functionality")
            ELSE IF totalFiles = 1
            THEN verb \o <<" ">> \o _getCleanFilename(allFiles[1])
            ELSE verb \o <<" ">> \o NumberToString(totalFiles) \o Chars(" files")

\* A description whose file total and file list take in the renamed paths.
Describe_CountsRenamed(status, entities, commitType, verb) ==
    LET nAdded    == Len(status.added)
        nModified == Len(status.modified)
        nDeleted  == Len(status.deleted)
        totalFiles == nAdded + nModified + nDeleted + Len(status.renamed)
        allFiles  == status.added \o status.modified \o status.deleted \o status.renamed
    IN  IF nAdded > 0 /\ nModified = 0 /\ nDeleted = 0 THEN
            IF nAdded = 1
            THEN verb \o <<" ">> \o _getCleanFilename(status.added[1])
            ELSE verb \o <<" ">> \o NumberToString(nAdded) \o Chars(" new files")
        ELSE IF nDeleted > 0 /\ nAdded = 0 /\ nModified = 0 THEN
            IF nDeleted = 1
            THEN Chars("remove ") \o _getCleanFilename(status.deleted[1])
            ELSE Chars("remove ") \o NumberToString(nDeleted) \o Chars(" files")
        ELSE IF nModified > 0 /\ nAdded = 0 /\ nDeleted = 0 THEN
            IF Len(entities) > 0 THEN
                IF Len(entities) = 1
                THEN verb \o <<" ">> \o entities[1] \o Chars(" function")
                ELSE IF Len(entities) <= 3
                THEN verb \o <<" ">> \o Join(entities, Chars(", ")) \o Chars(" functions")
                ELSE verb \o Chars(" multiple functions")
            ELSE IF nModified = 1
            THEN verb \o <<" ">> \o _getCleanFilename(status.modified[1])
            ELSE verb \o <<" ">> \o NumberToString(nModified) \o Chars(" files")
        ELSE
            IF Len(entities) > 0
               /\ commitType \in {Chars("feat"), Chars("fix"), Chars("refactor")}
            THEN IF Len(entities) = 1
                 THEN verb \o <<" ">> \o entities[1]
                 ELSE verb \o <<" ">> \o entities[1] \o Chars(" and related functionality")
            ELSE IF totalFiles = 1
            THEN verb \o <<" ">> \o _getCleanFilename(allFiles[1])
            ELSE verb \o <<" ">> \o NumberToString(totalFiles) \o Chars(" files")

\* The branches of _generateDescription, for the verb chosen from the table.
Describe(status, entities, commitType, verb) ==
    LET nAdded    == Len(status.added)
        nModified == Len(status.modified)
        nDeleted  == Len(status.deleted)
        totalFiles == nAdded + nModified + nDeleted
        allFiles  == status.added \o status.modified \o status.deleted
    IN  IF nAdded > 0 /\ nModified = 0 /\ nDeleted = 0 THEN
            IF nAdded = 1
            THEN verb \o <<" ">> \o _getCleanFilename(status.added[1])
            ELSE verb \o <<" ">> \o NumberToString(nAdded) \o Chars(" new files")
        ELSE IF nDeleted > 0 /\ nAdded = 0 /\ nModified = 0 THEN
            IF nDeleted = 1
            THEN Chars("remove ") \o _getCleanFilename(status.deleted[1])
            ELSE Chars("remove ") \o NumberToString(nDeleted) \o Chars(" files")
        ELSE IF nModified > 0 /\ nAdded = 0 /\ nDeleted = 0 THEN
            IF Len(entities) > 0 THEN
                IF Len(entities) = 1
                THEN verb \o <<" ">> \o entities[1] \o Chars(" function")
                ELSE IF Len(entities) <= 3
                THEN verb \o <<" ">> \o Join(entities, Chars(", ")) \o Chars(" functions")
                ELSE verb \o Chars(" multiple functions")
            ELSE IF nModified = 1
            THEN verb \o <<" ">> \o _getCleanFilename(status.modified[1])
            ELSE verb \o <<" ">> \o NumberToString(nModified) \o Chars(" files")
        ELSE
            IF Len(entities) > 0
               /\ commitType \in {Chars("feat"), Chars("fix"), Chars("refactor")}
            THEN IF Len(entities) = 1
                 THEN verb \o <<" ">> \o entities[1]
                 ELSE verb \o <<" ">> \o entities[1] \o Chars(" and related functionality")
            ELSE IF totalFiles = 1
            THEN verb \o <<" ">> \o _getCleanFilename(allFiles[1])
            ELSE verb \o <<" ">> \o NumberToString(totalFiles) \o Chars(" files")

\* The description, with the verb table as it is when the function runs:
\* verbs = this.actionVerbs[commitType] || ['update'], verb = verbs[0].
_generateDescription(a, commitType, verbTable) ==
    Describe(a.status, a.entities, commitType, FirstVerb(VerbsOf(verbTable, commitType)))

\* scope && scope !== 'other'
ScopeShown(scope) == scope # None /\ Get(scope) # <<>> /\ Get(scope) # Chars("other")

\* The two templates of generateSubject.
FormatSubject(commitType, scope, description) ==
    IF ScopeShown(scope)
    THEN commitType \o <<"(">> \o Get(scope) \o Chars("): ") \o description
    ELSE commitType \o Chars(": ") \o description

\* A subject that always prints the parentheses.
generateSubject_AlwaysParenthesises(a, verbTable) ==
    CommitTypeOf(a.change_type) \o <<"(">> \o (IF a.scope = None THEN <<>> ELSE Get(a.scope))
        \o Chars("): ")
        \o _generateDescription(a, CommitTypeOf(a.change_type), verbTable)

\* A subject that shows every scope that is not null.
generateSubject_ShowsEveryScope(a, verbTable) ==
    CommitTypeOf(a.change_type)
        \o (IF a.scope # None THEN <<"(">> \o Get(a.scope) \o <<")">> ELSE <<>>)
        \o Chars(": ")
        \o _generateDescription(a, CommitTypeOf(a.change_type), verbTable)

generateSubject(a, verbTable) ==
    FormatSubject(CommitTypeOf(a.change_type), a.scope,
                  _generateDescription(a, CommitTypeOf(a.change_type), verbTable))

\* Body lines whose thresholds are met by the limit itself.
BodyParts_InclusiveThresholds(stats, entities, keys) ==
    (IF stats.files_changed >= 3
     THEN <<Chars("Modified ") \o NumberToString(stats.files_changed) \o Chars(" files")>>
     ELSE <<>>)
    \o (IF stats.insertions >= 20 \/ stats.deletions >= 20
        THEN <<<<"+">> \o NumberToString(stats.insertions) \o Chars(" -")
               \o NumberToString(stats.deletions) \o Chars(" lines")>>
        ELSE <<>>)
    \o (IF Len(entities) >= 1
        THEN <<Chars("Updated functions: ") \o Join(entities, Chars(", "))>>
        ELSE <<>>)
    \o (IF Len(keys) >= 2
        THEN <<Chars("Affected: ") \o Join(keys, Chars(", ")) \o Chars(" files")>>
        ELSE <<>>)

\* The qualifying body lines, in their order.
BodyParts(stats, entities, keys) ==
    (IF stats.files_changed > 3
     THEN <<Chars("Modified ") \o NumberToString(stats.files_changed) \o Chars(" files")>>
     ELSE <<>>)
    \o (IF stats.insertions > 20 \/ stats.deletions > 20
        THEN <<<<"+">> \o NumberToString(stats.insertions) \o Chars(" -")
               \o NumberToString(stats.deletions) \o Chars(" lines")>>
        ELSE <<>>)
    \o (IF Len(entities) > 1
        THEN <<Chars("Updated functions: ") \o Join(entities, Chars(", "))>>
        ELSE <<>>)
    \o (IF Len(keys) > 2
        THEN <<Chars("Affected: ") \o Join(keys, Chars(", ")) \o Chars(" files")>>
        ELSE <<>>)

\* bodyParts.length > 0 ? bodyParts.join('\n') : null
JoinedOrNull(bodyParts) == IF Len(bodyParts) > 0 THEN Some(Join(bodyParts, <<"\n">>)) ELSE None

\* Object.keys(analysis.file_types)
FileTypeKeys(file_types) == [i \in 1..Len(file_types) |-> file_types[i].type]

generateBody(a) == JoinedOrNull(BodyParts(a.stats, a.entities, FileTypeKeys(a.file_types)))

\* The returns of generateFullMessage; the body is only made when asked for.
FullMessage(subject, includeBody, body) ==
    IF ~includeBody THEN subject
    ELSE IF body # None /\ Get(body) # <<>> THEN subject \o Chars("\n\n") \o Get(body)
    ELSE subject

generateFullMessage(a, includeBody, verbTable) ==
    FullMessage(generateSubject(a, verbTable), includeBody, generateBody(a))

\* A generic suggestion that always prints the plural.
GenericFor_AlwaysPlural(commitType, scope, filesChanged) ==
    IF ScopeShown(scope)
    THEN commitType \o <<"(">> \o Get(scope) \o Chars("): update implementation")
    ELSE commitType \o Chars(": update ") \o NumberToString(filesChanged) \o Chars(" files")

\* The generic third suggestion, for filesChanged = stats.files_changed || 1.
GenericFor(commitType, scope, filesChanged) ==
    IF ScopeShown(scope)
    THEN commitType \o <<"(">> \o Get(scope) \o Chars("): update implementation")
    ELSE commitType \o Chars(": update ") \o NumberToString(filesChanged)
         \o Chars(" file") \o (IF filesChanged > 1 THEN <<"s">> ELSE <<>>)

GenericMessage(a) ==
    GenericFor(CommitTypeOf(a.change_type), a.scope,
               IF a.stats.files_changed = 0 THEN 1 ELSE a.stats.files_changed)

\* A swap that leaves the list as it is.
SwapFirstVerb_LeavesTable(verbTable, type) == verbTable

\* verbs[0] = verbs[1] on the list the table holds for the type. A type without
\* a list got a fresh ['update'], which is never swapped.
SwapFirstVerb(verbTable, type) ==
    [verbTable EXCEPT ![type] = [verbTable[type] EXCEPT ![1] = verbTable[type][2]]]

\* A restore that is never made.
RestoreFirstVerb_Forgotten(verbTable, type, originalFirstVerb) == verbTable

\* verbs[0] = originalFirstVerb
RestoreFirstVerb(verbTable, type, originalFirstVerb) ==
    [verbTable EXCEPT ![type] = [verbTable[type] EXCEPT ![1] = originalFirstVerb]]

\* The body of suggestMultipleMessages for the type and the verb list it looked up.
SuggestWith(a, count, verbTable, originalType, verbs) ==
    [messages |->
        Slice(<<generateFullMessage(a, FALSE, verbTable)>>
              \o (IF count > 1 /\ Len(verbs) > 1
                  THEN <<generateFullMessage(a, FALSE, SwapFirstVerb(verbTable, originalType))>>
                  ELSE <<>>)
              \o (IF count > 2 THEN <<GenericMessage(a)>> ELSE <<>>),
              1, count),
     actionVerbs |->
        IF count > 1 /\ Len(verbs) > 1
        THEN RestoreFirstVerb(SwapFirstVerb(verbTable, originalType), originalType, verbs[1])
        ELSE verbTable]

\* A suggestMultipleMessages that pushes its alternatives whatever the count.
suggestMultipleMessages_IgnoresCount(a, count, verbTable) ==
    SuggestWith(a, 3, verbTable, CommitTypeOf(a.change_type),
                VerbsOf(verbTable, CommitTypeOf(a.change_type)))

\* suggestMultipleMessages: the messages it returns and the verb table it leaves.
suggestMultipleMessages(a, count, verbTable) ==
    SuggestWith(a, count, verbTable, CommitTypeOf(a.change_type),
                VerbsOf(verbTable, CommitTypeOf(a.change_type)))

-----------------------------------------------------------------------------
(* The external generator: generateMessageWithGPT and generateGPTMessages *)

Quotes == {"\"", "'"}

\* s.replace(/^["']|["']$/g, ''): one quote off the start, one off the end.
StripQuotes(s) ==
    LET t == IF s # <<>> /\ s[1] \in Quotes THEN Tail(s) ELSE s
    IN  IF t # <<>> /\ t[Len(t)] \in Quotes THEN Take(t, Len(t) - 1) ELSE t

\* What the HTTP request ends with: a completion, a completion without
\* choices, an error status, or no response at all.
Response(kind, content) == [kind |-> kind, content |-> content]

NoResponse == Response("none", <<>>)

\* The result of a call: it returned a value, or it threw an error.
Return(value) == [threw |-> FALSE, value |-> value, error |-> "none"]

Throw(error) == [threw |-> TRUE, value |-> <<>>, error |-> error]

\* generateMessageWithGPT: without a key it throws before any request; with a
\* response it returns the cleaned first line of the completion, or throws the
\* error classified by the status.
generateMessageWithGPT(hasKey, response) ==
    IF ~hasKey THEN Throw("missing-credential")
    ELSE IF response.kind = "completion"
    THEN Return(Trim(SplitFirst(StripQuotes(Trim(response.content)), <<"\n">>)))
    ELSE IF response.kind = "401" THEN Throw("invalid-credential")
    ELSE IF response.kind = "429" THEN Throw("rate-limited")
    ELSE Throw("other")

\* !diffContent.trim(), with diffContent = analysis.diff_content || ''
NoDiffContent(a) == Trim(a.diff_content) = <<>>

\* The try block after the await and the catch block, for the local
\* suggestions each of them asks for.
ResumeWith(count, generated, verbTable, localTry, localCatch) ==
    IF ~generated.threw
    THEN [result |-> Return(Slice(<<generated.value>>
                                  \o (IF count > 1 THEN localTry.messages ELSE <<>>),
                                  1, count)),
          actionVerbs |-> IF count > 1 THEN localTry.actionVerbs ELSE verbTable]
    ELSE [result |-> Return(localCatch.messages), actionVerbs |-> localCatch.actionVerbs]

\* A continuation that puts the external message in every slot.
generateGPTMessagesResume_RepeatsExternal(a, count, generated, verbTable) ==
    IF ~generated.threw
    THEN [result |-> Return([i \in 1..count |-> generated.value]), actionVerbs |-> verbTable]
    ELSE [result |-> Return(<<>>), actionVerbs |-> verbTable]

\* A continuation that lets the error of the external generator escape.
generateGPTMessagesResume_NoFallback(a, count, generated, verbTable) ==
    IF ~generated.threw
    THEN [result |-> Return(<<generated.value>>), actionVerbs |-> verbTable]
    ELSE [result |-> Throw(generated.error), actionVerbs |-> verbTable]

\* generateGPTMessages after its await: the try block with the generated
\* message, or the catch block that falls back to the local suggestions.
generateGPTMessagesResume(a, count, generated, verbTable) ==
    ResumeWith(count, generated, verbTable,
               suggestMultipleMessages(a, count - 1, verbTable),
               suggestMultipleMessages(a, count, verbTable))

-----------------------------------------------------------------------------
(* Classifier: DiffAnalyzer *)

UpperLetters == Chars("ABCDEFGHIJKLMNOPQRSTUVWXYZ")

LowerLetters == Chars("abcdefghijklmnopqrstuvwxyz")

\* \w of a regular expression.
WordChars == UpperCase \cup {LowerLetters[i] : i \in 1..26} \cup {Digit(d) : d \in 0..9} \cup {"_"}

\* String.prototype.toLowerCase
ToLowerCase(s) ==
    [i \in 1..Len(s) |->
        IF s[i] \in UpperCase
        THEN LowerLetters[CHOOSE k \in 1..26 : UpperLetters[k] = s[i]]
        ELSE s[i]]

\* this.fileExtensions
fileExtensions ==
    Chars(".py") :> Chars("python") @@ Chars(".js") :> Chars("javascript")
    @@ Chars(".ts") :> Chars("typescript") @@ Chars(".jsx") :> Chars("react")
    @@ Chars(".tsx") :> Chars("react") @@ Chars(".go") :> Chars("golang")
    @@ Chars(".java") :> Chars("java") @@ Chars(".cpp") :> Chars("cpp")
    @@ Chars(".c") :> Chars("c") @@ Chars(".rs") :> Chars("rust")
    @@ Chars(".rb") :> Chars("ruby") @@ Chars(".php") :> Chars("php")
    @@ Chars(".css") :> Chars("css") @@ Chars(".scss") :> Chars("sass")
    @@ Chars(".html") :> Chars("html") @@ Chars(".md") :> Chars("documentation")
    @@ Chars(".json") :> Chars("config") @@ Chars(".yaml") :> Chars("config")
    @@ Chars(".yml") :> Chars("config") @@ Chars(".xml") :> Chars("config")
    @@ Chars(".toml") :> Chars("config") @@ Chars(".dockerfile") :> Chars("docker")
    @@ Chars(".sql") :> Chars("database") @@ Chars(".sh") :> Chars("script")
    @@ Chars(".bash") :> Chars("script") @@ Chars(".zsh") :> Chars("script")

\* A change pattern /head.*tail/i (tail may be empty): a RegExp without the
\* global flag.
Pattern(head, tail) == [head |-> Chars(head), tail |-> Chars(tail), global |-> FALSE]

\* this.changePatterns, in the order of its keys.
changePatterns ==
    << [type |-> Chars("feature"),
        patterns |-> <<Pattern("add", "function"), Pattern("new", "class"),
                       Pattern("implement", ""), Pattern("create", ""),
                       Pattern("introduce", ""), Pattern("build", "")>>],
       [type |-> Chars("fix"),
        patterns |-> <<Pattern("fix", "bug"), Pattern("resolve", ""),
                       Pattern("correct", ""), Pattern("patch", ""),
                       Pattern("repair", ""), Pattern("address", "issue")>>],
       [type |-> Chars("refactor"),
        patterns |-> <<Pattern("refactor", ""), Pattern("restructure", ""),
                       Pattern("reorganize", ""), Pattern("clean", "up"),
                       Pattern("simplify", ""), Pattern("optimize", "")>>],
       [type |-> Chars("docs"),
        patterns |-> <<Pattern("update", "documentation"), Pattern("add", "comment"),
                       Pattern("improve", "readme"), Pattern("document", ""),
                       Pattern("add", "docstring")>>],
       [type |-> Chars("style"),
        patterns |-> <<Pattern("format", ""), Pattern("indent", ""),
                       Pattern("whitespace", ""), Pattern("style", ""),
                       Pattern("lint", ""), Pattern("prettier", "")>>],
       [type |-> Chars("test"),
        patterns |-> <<Pattern("add", "test"), Pattern("test", ""),
                       Pattern("spec", ""), Pattern("mock", "")>>],
       [type |-> Chars("chore"),
        patterns |-> <<Pattern("update", "dependency"), Pattern("upgrade", ""),
                       Pattern("maintenance", ""), Pattern("cleanup", ""),
                       Pattern("remove", "unused")>>] >>

\* The RegExp objects of changePatterns: <<type index, pattern index>>.
PatternIds ==
    UNION {{<<t, k>> : k \in DOMAIN changePatterns[t].patterns} : t \in DOMAIN changePatterns}

\* The RegExp objects as the constructor leaves them.
FreshLastIndex == [id \in PatternIds |-> 0]

\* The last position of the line that starts at p: "." stops at a line terminator.
LineEnd(s, p) ==
    IF \E i \in p..Len(s) : ~Dot(s[i])
    THEN Min({i \in p..Len(s) : ~Dot(s[i])}) - 1
    ELSE Len(s)

\* The positions at which the tail of a pattern can follow a head found at i.
TailPositions(s, i, pattern) ==
    {j \in (i + Len(pattern.head))..(LineEnd(s, i + Len(pattern.head)) - Len(pattern.tail) + 1) :
        Slice(s, j, j + Len(pattern.tail) - 1) = pattern.tail}

\* head.*tail matches at position i.
MatchesAt(s, i, pattern) ==
    /\ Slice(s, i, i + Len(pattern.head) - 1) = pattern.head
    /\ pattern.tail # <<>> => TailPositions(s, i, pattern) # {}

\* The last position of the (greedy) match found at i.
MatchEnd(s, i, pattern) ==
    IF pattern.tail = <<>> THEN LineEnd(s, i + Len(pattern.head))
    ELSE Max(TailPositions(s, i, pattern)) + Len(pattern.tail) - 1

\* The positions from which a search starting after `from` characters finds a match.
MatchPositions(s, from, pattern) == {i \in (from + 1)..Len(s) : MatchesAt(s, i, pattern)}

\* RegExp.prototype.exec: a RegExp with the global flag searches from its
\* lastIndex and moves it behind the match (to 0 when there is none); one
\* without it searches from the start and leaves lastIndex alone.
RegExpExec(pattern, s, last) ==
    IF pattern.global
    THEN IF last <= Len(s) /\ MatchPositions(s, last, pattern) # {}
         THEN [found |-> TRUE,
               lastIndex |-> MatchEnd(s, Min(MatchPositions(s, last, pattern)), pattern)]
         ELSE [found |-> FALSE, lastIndex |-> 0]
    ELSE [found |-> MatchPositions(s, 0, pattern) # {}, lastIndex |-> last]

\* The length of the array exec returns: the match itself (no pattern has a group).
ExecLength(result) ==
    [length |-> IF result.found THEN 1 ELSE 0, lastIndex |-> result.lastIndex]

\* A scoring step that consults each RegExp as if it carried the global flag.
matches_StickyExec(diffLower, pattern, last) ==
    ExecLength(RegExpExec([pattern EXCEPT !.global = TRUE], diffLower, last))

\* (diffLower.match(pattern) || []).length, and the lastIndex the RegExp is
\* left with: String.prototype.match without the global flag is exec.
matches(diffLower, pattern, last) == ExecLength(RegExpExec(pattern, diffLower, last))

RECURSIVE Sum(_)
Sum(xs) == IF xs = <<>> THEN 0 ELSE xs[1] + Sum(Tail(xs))

\* typeScores, in the order of the keys of changePatterns.
TypeScores(diffLower, last) ==
    [t \in DOMAIN changePatterns |->
        Sum([k \in DOMAIN changePatterns[t].patterns |->
                matches(diffLower, changePatterns[t].patterns[k], last[<<t, k>>]).length])]

\* The lastIndex of every RegExp after the scoring loop.
ScoredLastIndex(diffLower, last) ==
    [id \in PatternIds |->
        matches(diffLower, changePatterns[id[1]].patterns[id[2]], last[id]).lastIndex]

\* A reduce that keeps the accumulator on a tie (>= for >).
RECURSIVE ReduceGreater_KeepsEarlier(_, _, _)
ReduceGreater_KeepsEarlier(a, b, counts) ==
    IF b > Len(counts) THEN a
    ELSE ReduceGreater_KeepsEarlier(IF counts[a] >= counts[b] THEN a ELSE b, b + 1, counts)

\* keys.reduce((a, b) => counts[a] > counts[b] ? a : b) from the accumulator a
\* and the next key b on: the position of the key it returns.
RECURSIVE ReduceGreater(_, _, _)
ReduceGreater(a, b, counts) ==
    IF b > Len(counts) THEN a
    ELSE ReduceGreater(IF counts[a] > counts[b] THEN a ELSE b, b + 1, counts)

RECURSIVE MaxOf(_)
MaxOf(xs) == IF Len(xs) = 1 THEN xs[1]
             ELSE IF xs[1] > MaxOf(Tail(xs)) THEN xs[1] ELSE MaxOf(Tail(xs))

\* The return of detectChangeType for the scores.
TypeOfScores(typeScores) ==
    IF MaxOf(typeScores) = 0 THEN Chars("feat")
    ELSE changePatterns[ReduceGreater(1, 2, typeScores)].type

\* detectChangeType: the change type, the typeScores it was chosen from, and
\* the state it leaves the patterns in.
detectChangeType(diffContent, last) ==
    [change_type |-> TypeOfScores(TypeScores(ToLowerCase(diffContent), last)),
     typeScores |-> TypeScores(ToLowerCase(diffContent), last),
     lastIndex |-> ScoredLastIndex(ToLowerCase(diffContent), last)]

\* The patterns of extractFunctionsAndClasses, /\+.*keyword\s+(\w+)/g, the last
\* three followed by \s*=. They are made anew by every call.
entityPatterns ==
    << [keyword |-> Chars("def"), assignment |-> FALSE],
       [keyword |-> Chars("function"), assignment |-> FALSE],
       [keyword |-> Chars("class"), assignment |-> FALSE],
       [keyword |-> Chars("const"), assignment |-> TRUE],
       [keyword |-> Chars("let"), assignment |-> TRUE],
       [keyword |-> Chars("var"), assignment |-> TRUE] >>

\* The last position of the longest run of characters of the class from p on
\* (p - 1 when there is none).
RunEnd(s, p, class) ==
    IF p > Len(s) THEN p - 1
    ELSE IF \E i \in p..Len(s) : s[i] \notin class
    THEN Min({i \in p..Len(s) : s[i] \notin class}) - 1
    ELSE Len(s)

\* keyword\s+(\w+) and the optional \s*= with the white space run ending at ws,
\* the word at w and the equals sign expected at eq.
GroupMatch(s, k, pattern, ws, w, eq) ==
    IF /\ Slice(s, k, k + Len(pattern.keyword) - 1) = pattern.keyword
       /\ ws >= k + Len(pattern.keyword)
       /\ w >= ws + 1
       /\ pattern.assignment => (eq <= Len(s) /\ s[eq] = "=")
    THEN Some([name |-> Slice(s, ws + 1, w), end |-> IF pattern.assignment THEN eq ELSE w])
    ELSE None

\* The match with the keyword at k: \s+ and \w+ take the longest runs.
WordAfter(s, k, pattern, ws) ==
    GroupMatch(s, k, pattern, ws, RunEnd(s, ws + 1, WordChars),
               RunEnd(s, RunEnd(s, ws + 1, WordChars) + 1, WhiteSpace) + 1)

KeywordMatch(s, k, pattern) ==
    WordAfter(s, k, pattern, RunEnd(s, k + Len(pattern.keyword), WhiteSpace))

\* The keyword positions on the line of the "+" at p that give a match.
KeywordPositions(s, p, pattern) ==
    {k \in (p + 1)..LineEnd(s, p + 1) : KeywordMatch(s, k, pattern) # None}

\* The positions of a "+" from which the pattern matches, after `from` characters.
PlusPositions(s, from, pattern) ==
    {p \in (from + 1)..Len(s) : s[p] = "+" /\ KeywordPositions(s, p, pattern) # {}}

\* pattern.exec(diffContent) from lastIndex `from`: the leftmost "+", and for
\* it the last keyword of the line (".*" is greedy).
ExecEntity(s, from, pattern) ==
    IF PlusPositions(s, from, pattern) = {} THEN None
    ELSE KeywordMatch(s, Max(KeywordPositions(s, Min(PlusPositions(s, from, pattern)), pattern)),
                      pattern)

\* The while loop over one pattern: match[1] of every match, in order.
RECURSIVE ExecAll(_, _, _)
ExecAll(s, from, pattern) ==
    IF ExecEntity(s, from, pattern) = None THEN <<>>
    ELSE <<Get(ExecEntity(s, from, pattern)).name>>
         \o ExecAll(s, Get(ExecEntity(s, from, pattern)).end, pattern)

Range(xs) == {xs[i] : i \in DOMAIN xs}

\* [...new Set(xs)]: the first occurrence of every element, in order.
RECURSIVE Unique(_)
Unique(xs) ==
    IF xs = <<>> THEN <<>>
    ELSE IF xs[Len(xs)] \in Range(Take(xs, Len(xs) - 1)) THEN Unique(Take(xs, Len(xs) - 1))
    ELSE Append(Unique(Take(xs, Len(xs) - 1)), xs[Len(xs)])

RECURSIVE Flatten(_)
Flatten(xss) == IF xss = <<>> THEN <<>> ELSE xss[1] \o Flatten(Tail(xss))

\* extractFunctionsAndClasses: pattern after pattern, then de-duplicated.
extractFunctionsAndClasses(diffContent) ==
    Unique(Flatten([k \in DOMAIN entityPatterns |-> ExecAll(diffContent, 0, entityPatterns[k])]))

\* this.fileExtensions[ext] || 'other' for ext = path.extname(file).toLowerCase()
FileTypeOf(file) ==
    IF ToLowerCase(ExtName(file)) \in DOMAIN fileExtensions
    THEN fileExtensions[ToLowerCase(ExtName(file))]
    ELSE Chars("other")

\* A count that is set to 1 for every file of a type.
Count_SetsOne(fileTypes, fileType) ==
    IF \E i \in DOMAIN fileTypes : fileTypes[i].type = fileType
    THEN fileTypes
    ELSE Append(fileTypes, [type |-> fileType, count |-> 1])

\* fileTypes[fileType] = (fileTypes[fileType] || 0) + 1
Count(fileTypes, fileType) ==
    IF \E i \in DOMAIN fileTypes : fileTypes[i].type = fileType
    THEN [i \in DOMAIN fileTypes |->
            IF fileTypes[i].type = fileType
            THEN [type |-> fileType, count |-> fileTypes[i].count + 1]
            ELSE fileTypes[i]]
    ELSE Append(fileTypes, [type |-> fileType, count |-> 1])

\* analyzeFileTypes: the counts, as an object whose keys keep insertion order.
RECURSIVE analyzeFileTypes(_)
analyzeFileTypes(files) ==
    IF files = <<>> THEN <<>>
    ELSE Count(analyzeFileTypes(Take(files, Len(files) - 1)), FileTypeOf(files[Len(files)]))

\* The tests of files.some(f => ...).
MentionsTest(f) == Includes(ToLowerCase(f), Chars("test"))

MentionsDocs(f) == Includes(ToLowerCase(f), Chars("doc")) \/ Includes(ToLowerCase(f), Chars("readme"))

MentionsConfig(f) ==
    \/ Includes(ToLowerCase(f), Chars("config"))
    \/ Includes(f, Chars(".json"))
    \/ Includes(f, Chars(".yaml"))

\* A determineScope that looks at the paths before it looks for a single key.
determineScope_PathRulesFirst(fileTypes, files) ==
    IF \E i \in DOMAIN files : MentionsTest(files[i]) THEN Some(Chars("test"))
    ELSE IF \E i \in DOMAIN files : MentionsDocs(files[i]) THEN Some(Chars("docs"))
    ELSE IF \E i \in DOMAIN files : MentionsConfig(files[i]) THEN Some(Chars("config"))
    ELSE IF Len(fileTypes) > 0
    THEN Some(fileTypes[ReduceGreater(1, 2, [i \in DOMAIN fileTypes |-> fileTypes[i].count])].type)
    ELSE None

\* determineScope: a key of fileTypes, 'test', 'docs', 'config', or null.
determineScope(fileTypes, files) ==
    IF Len(fileTypes) = 1 THEN Some(fileTypes[1].type)
    ELSE IF \E i \in DOMAIN files : MentionsTest(files[i]) THEN Some(Chars("test"))
    ELSE IF \E i \in DOMAIN files : MentionsDocs(files[i]) THEN Some(Chars("docs"))
    ELSE IF \E i \in DOMAIN files : MentionsConfig(files[i]) THEN Some(Chars("config"))
    ELSE IF Len(fileTypes) > 0
    THEN Some(fileTypes[ReduceGreater(1, 2, [i \in DOMAIN fileTypes |-> fileTypes[i].count])].type)
    ELSE None

\* git status --porcelain, as the lists getGitStatus builds from it. The
\* listing names unstaged paths as well.
getGitStatus(g) == g.status

\* git diff --cached --numstat, summed by getDiffStats.
getDiffStats(g) ==
    IF g.staged THEN g.stats ELSE [files_changed |-> 0, insertions |-> 0, deletions |-> 0]

\* git diff --cached: getStagedDiff
getStagedDiff(g) == IF g.staged THEN g.diff ELSE <<>>

\* Object.values(status), spread into allFiles.
AllFiles(status) == status.added \o status.modified \o status.deleted \o status.renamed

\* An analyzeChanges that cuts the match list to five before the duplicates go.
AnalysisOf_TruncatesFirst(status, diffStats, diffContent, fileTypes, detected) ==
    [analysis |->
        [status |-> status,
         stats |-> diffStats,
         file_types |-> fileTypes,
         change_type |-> detected.change_type,
         scope |-> determineScope(fileTypes, AllFiles(status)),
         entities |->
             Unique(Slice(Flatten([k \in DOMAIN entityPatterns |->
                                     ExecAll(diffContent, 0, entityPatterns[k])]), 1, 5)),
         diff_content |-> diffContent],
     lastIndex |-> detected.lastIndex]

\* The object analyzeChanges returns for what it read and computed.
AnalysisOf(status, diffStats, diffContent, fileTypes, detected) ==
    [analysis |->
        [status |-> status,
         stats |-> diffStats,
         file_types |-> fileTypes,
         change_type |-> detected.change_type,
         scope |-> determineScope(fileTypes, AllFiles(status)),
         entities |-> Slice(extractFunctionsAndClasses(diffContent), 1, 5),
         diff_content |-> diffContent],
     lastIndex |-> detected.lastIndex]

\* analyzeChanges: the Analysis, and the state it leaves the patterns in.
analyzeChanges(g, last) ==
    AnalysisOf(getGitStatus(g), getDiffStats(g), getStagedDiff(g),
               analyzeFileTypes(AllFiles(getGitStatus(g))),
               detectChangeType(getStagedDiff(g), last))

\* The repository as the git commands report it: whether there is one, the
\* paths of git status, and the numstat sums and the text of the staged diff.
Git(isRepo, staged, status, stats, diff) ==
    [isRepo |-> isRepo, staged |-> staged, status |-> status, stats |-> stats, diff |-> diff]

\* No repository is read.
NoGit ==
    Git(FALSE, FALSE, [added |-> <<>>, modified |-> <<>>, deleted |-> <<>>, renamed |-> <<>>],
        [files_changed |-> 0, insertions |-> 0, deletions |-> 0], <<>>)

\* The analyzer as its constructor leaves it, with no call made.
ClassifierIdle == git = NoGit /\ lastIndex = FreshLastIndex /\ calls = <<>>

\* What the workflow did: the staged diff checkStagedChanges read, a request
\* sent, a GPT failure, the local path, a validation, a confirmation, a
\* cancellation ('Commit cancelled', with the prompt it answers), a commit.
Event(kind, text) == [kind |-> kind, text |-> text]

\* No command line is given.
NoOptions ==
    [auto |-> FALSE, message |-> None, stageAll |-> FALSE, analyzeOnly |-> FALSE,
     dryRun |-> FALSE, gpt |-> FALSE]

\* main has not started.
NoRun ==
    [pc |-> "start", useGPT |-> FALSE, suggestions |-> <<>>, finalMessage |-> None,
     validation |-> None, events |-> <<>>, exit |-> None]

\* The script is not run.
CliIdle == options = NoOptions /\ run = NoRun

-----------------------------------------------------------------------------
(* The validator applied to bounded messages *)

MaxMid == 3

MsgAlphabet == {":", " ", "a", "A", ".", "(", ")", "\n"}

RECURSIVE StringsUpTo(_, _)
StringsUpTo(alphabet, n) ==
    IF n = 0 THEN {<<>>}
    ELSE LET shorter == StringsUpTo(alphabet, n - 1)
         IN  shorter \cup {Append(s, c) : s \in {t \in shorter : Len(t) = n - 1}, c \in alphabet}

Repeat(c, n) == [i \in 1..n |-> c]

MsgPrefixes == {<<>>, Chars("feat"), Chars("revert"), Chars("Fix"), Chars("feature")}

MsgTails == {<<>>, <<".">>}

\* The subject lengths the padding aims at; 0 is no padding.
MsgTargets == {0, MaxSubjectLength, MaxSubjectLength + 1}

\* prefix, a short middle over the alphabet, padding up to the target length, tail.
MessageOf(prefix, mid, target, tail) ==
    LET base == Len(prefix) + Len(mid) + Len(tail)
        pad  == IF target > base THEN target - base ELSE 0
    IN  prefix \o mid \o Repeat("x", pad) \o tail

Messages ==
    {MessageOf(p, m, g, t) :
        p \in MsgPrefixes, m \in StringsUpTo(MsgAlphabet, MaxMid), g \in MsgTargets, t \in MsgTails}

InitValidator ==
    /\ message \in Messages
    /\ validation = None
    /\ analysis = None
    /\ actionVerbs = <<>>
    /\ apiKey = FALSE
    /\ pending = <<>>
    /\ returned = None
    /\ ClassifierIdle
    /\ CliIdle

Validate ==
    /\ validation = None
    /\ validation' = Some(validateMessage(message))
    /\ UNCHANGED <<message, synthVars, classifierVars, cliVars>>

NextValidator == Validate

SpecValidator == InitValidator /\ [][NextValidator]_vars

-----------------------------------------------------------------------------
(* The synthesizer applied to bounded analyses *)

MaxCount == 4

\* constants.js, ACTION_VERBS: every commit type the mapping yields has a list
\* of several verbs.
ACTION_VERBS ==
    (Chars("feat") :> <<Chars("add"), Chars("implement"), Chars("introduce")>>)
    @@ (Chars("fix") :> <<Chars("fix"), Chars("resolve"), Chars("correct")>>)
    @@ (Chars("refactor") :> <<Chars("refactor"), Chars("restructure")>>)
    @@ (Chars("docs") :> <<Chars("update"), Chars("document")>>)
    @@ (Chars("style") :> <<Chars("format"), Chars("style")>>)
    @@ (Chars("test") :> <<Chars("add"), Chars("update")>>)
    @@ (Chars("chore") :> <<Chars("update"), Chars("upgrade")>>)

\* A table in which a type has a single verb and other types have no list.
ACTION_VERBS_Sparse ==
    (Chars("feat") :> <<Chars("add"), Chars("implement"), Chars("introduce")>>)
    @@ (Chars("fix") :> <<Chars("fix")>>)
    @@ (Chars("docs") :> <<Chars("update"), Chars("document")>>)

VerbTables == <<ACTION_VERBS, ACTION_VERBS_Sparse>>

\* The change types of the classifier, its zero-evidence 'feat', and a value
\* the mapping does not have.
ChangeTypes ==
    {Chars("feature"), Chars("fix"), Chars("refactor"), Chars("docs"), Chars("style"),
     Chars("test"), Chars("chore"), Chars("feat"), Chars("unknown")}

Status(added, modified, deleted, renamed) ==
    [added |-> added, modified |-> modified, deleted |-> deleted, renamed |-> renamed]

\* The shapes of the status: pure addition, pure deletion, pure modification
\* (of one file and of several), mixed, renames only, and nothing at all.
Statuses ==
    {Status(<<Chars("auth.py")>>, <<>>, <<>>, <<>>),
     Status(<<Chars("auth.py"), Chars("src/user_service.js")>>, <<>>, <<>>, <<Chars("a.txt")>>),
     Status(<<>>, <<>>, <<Chars("lib/old-helper.js")>>, <<Chars("b.txt")>>),
     Status(<<>>, <<>>, <<Chars("old_helper.js"), Chars("legacy.js")>>, <<>>),
     Status(<<>>, <<Chars("README.md")>>, <<>>, <<>>),
     Status(<<>>, <<Chars("src/.env"), Chars("auth.py")>>, <<>>, <<>>),
     Status(<<Chars("auth.py")>>, <<Chars("README.md")>>, <<>>, <<>>),
     Status(<<>>, <<Chars("auth.py")>>, <<Chars("legacy.js")>>, <<Chars("a.txt")>>),
     Status(<<>>, <<>>, <<>>, <<Chars("a.txt")>>),
     Status(<<>>, <<>>, <<>>, <<>>)}

Scopes == {None, Some(<<>>), Some(Chars("other")), Some(Chars("python"))}

Stats(files_changed, insertions, deletions) ==
    [files_changed |-> files_changed, insertions |-> insertions, deletions |-> deletions]

\* The entities found in the diff, with the statistics of the same diff and
\* the file type keys of its paths.
Details ==
    {<<<<>>, Stats(0, 0, 0), <<Chars("python")>>>>,
     <<<<Chars("login")>>, Stats(1, 45, 2), <<Chars("python")>>>>,
     <<<<Chars("login"), Chars("authenticate")>>, Stats(1, 45, 2), <<Chars("python")>>>>,
     <<<<Chars("login"), Chars("authenticate"), Chars("User"), Chars("x")>>, Stats(4, 3, 0),
       <<Chars("python")>>>>,
     <<<<Chars("login")>>, Stats(3, 20, 20), <<Chars("python"), Chars("javascript")>>>>,
     <<<<Chars("login"), Chars("authenticate"), Chars("User")>>, Stats(3, 21, 0),
       <<Chars("python"), Chars("javascript")>>>>,
     <<<<Chars("login"), Chars("authenticate"), Chars("User"), Chars("x"), Chars("y")>>,
       Stats(2, 0, 21), <<Chars("python"), Chars("javascript"), Chars("config")>>>>}

FileTypes(keys) == [i \in 1..Len(keys) |-> [type |-> keys[i], count |-> 1]]

Analysis(status, stats, file_types, change_type, scope, entities, diff_content) ==
    [status |-> status, stats |-> stats, file_types |-> file_types,
     change_type |-> change_type, scope |-> scope, entities |-> entities,
     diff_content |-> diff_content]

Analyses ==
    {Analysis(st, d[2], FileTypes(d[3]), ct, sc, d[1], Chars("+x")) :
        st \in Statuses, d \in Details, ct \in ChangeTypes, sc \in Scopes}

Returned(op, count, outcome, threw, value) ==
    [op |-> op, count |-> count, outcome |-> outcome, threw |-> threw, value |-> value]

InitSynthesizer ==
    /\ \E t \in 1..Len(VerbTables) : actionVerbs = VerbTables[t]
    /\ analysis \in {Some(a) : a \in Analyses}
    /\ apiKey = FALSE
    /\ pending = <<>>
    /\ returned = None
    /\ message = <<>>
    /\ validation = None
    /\ ClassifierIdle
    /\ CliIdle

\* A call that runs to its end: what it returned and the table it left.
Complete(op, count, value, verbTable) ==
    /\ returned' = Some(Returned(op, count, NoResponse, FALSE, value))
    /\ actionVerbs' = verbTable
    /\ UNCHANGED <<analysis, apiKey, pending, validatorVars, classifierVars, cliVars>>

GenerateSubject ==
    Complete("generateSubject", 0, <<generateSubject(Get(analysis), actionVerbs)>>, actionVerbs)

\* _generateDescription called as generateSubject calls it.
GenerateDescription ==
    Complete("_generateDescription", 0,
             <<_generateDescription(Get(analysis), CommitTypeOf(Get(analysis).change_type),
                                    actionVerbs)>>,
             actionVerbs)

\* generateBody: the body, or nothing for null.
GenerateBody == Complete("generateBody", 0, generateBody(Get(analysis)), actionVerbs)

GenerateFullMessage ==
    \E includeBody \in BOOLEAN :
        Complete("generateFullMessage", IF includeBody THEN 1 ELSE 0,
                 <<generateFullMessage(Get(analysis), includeBody, actionVerbs)>>, actionVerbs)

CompleteSuggest(count, r) == Complete("suggestMultipleMessages", count, r.messages, r.actionVerbs)

SuggestMultipleMessages ==
    \E count \in 1..MaxCount :
        CompleteSuggest(count, suggestMultipleMessages(Get(analysis), count, actionVerbs))

NextSynthesizer ==
    \/ GenerateSubject
    \/ GenerateDescription
    \/ GenerateBody
    \/ GenerateFullMessage
    \/ SuggestMultipleMessages

SpecSynthesizer == InitSynthesizer /\ [][NextSynthesizer]_vars

-----------------------------------------------------------------------------
(* The external generator called on bounded analyses *)

MaxPending == 1

DiffContents == {<<>>, Chars(" \n"), Chars("+def login")}

GeneratorAnalyses ==
    {Analysis(st, Stats(1, 45, 2), FileTypes(<<Chars("python")>>), ct, sc,
              <<Chars("login")>>, diff) :
        st \in {Status(<<Chars("auth.py")>>, <<>>, <<>>, <<>>),
                Status(<<Chars("auth.py")>>, <<Chars("README.md")>>, <<>>, <<>>)},
        ct \in {Chars("feature"), Chars("fix")},
        sc \in {None, Some(Chars("python"))},
        diff \in DiffContents}

Completions == {Chars("feat(auth): add login"), Chars(" \"Fix: Login.\"\nnotes ")}

Responses ==
    {Response("completion", c) : c \in Completions}
    \cup {Response(k, <<>>) : k \in {"malformed", "401", "429", "500", "network"}}

InitGenerator ==
    /\ \E t \in 1..Len(VerbTables) : actionVerbs = VerbTables[t]
    /\ analysis \in {Some(a) : a \in GeneratorAnalyses}
    /\ apiKey \in BOOLEAN
    /\ pending = <<>>
    /\ returned = None
    /\ message = <<>>
    /\ validation = None
    /\ ClassifierIdle
    /\ CliIdle

\* The call up to its await: it throws when there is no diff text, otherwise
\* generateMessageWithGPT is entered, which sends a request only with a key.
GenerateGPTMessagesCall ==
    \E count \in 1..MaxCount :
        /\ Len(pending) < MaxPending
        /\ IF NoDiffContent(Get(analysis))
           THEN /\ returned' = Some(Returned("generateGPTMessages", count, NoResponse, TRUE, <<>>))
                /\ UNCHANGED pending
           ELSE /\ pending' = Append(pending, [count |-> count, requestSent |-> apiKey])
                /\ UNCHANGED returned
        /\ UNCHANGED <<analysis, actionVerbs, apiKey, validatorVars, classifierVars, cliVars>>

Remove(seq, i) == SubSeq(seq, 1, i - 1) \o SubSeq(seq, i + 1, Len(seq))

\* The call returns (or throws) r.result and leaves the table r.actionVerbs.
CompleteGenerate(i, outcome, r) ==
    /\ returned' = Some(Returned("generateGPTMessages", pending[i].count, outcome,
                                 r.result.threw, r.result.value))
    /\ actionVerbs' = r.actionVerbs
    /\ pending' = Remove(pending, i)
    /\ UNCHANGED <<analysis, apiKey, validatorVars, classifierVars, cliVars>>

\* The response as the caller sees it: the generated message, or the error kind.
Outcome(generated) ==
    IF generated.threw THEN Response(generated.error, <<>>)
    ELSE Response("completion", generated.value)

ResumeGenerated(i, generated) ==
    CompleteGenerate(i, Outcome(generated),
                     generateGPTMessagesResume(Get(analysis), pending[i].count, generated,
                                               actionVerbs))

\* The await of call i ends with the outcome of generateMessageWithGPT, and
\* the call runs to its return.
Resume(i, response) ==
    ResumeGenerated(i, generateMessageWithGPT(pending[i].requestSent, response))

\* The request of a suspended call is answered.
ExternalGeneratorResponds ==
    \E i \in 1..Len(pending) : \E response \in Responses :
        /\ pending[i].requestSent
        /\ Resume(i, response)

\* A call made without a key resumes with the rejection; no request was sent.
CredentialMissing ==
    \E i \in 1..Len(pending) :
        /\ ~pending[i].requestSent
        /\ Resume(i, NoResponse)

NextGenerator ==
    \/ GenerateGPTMessagesCall
    \/ ExternalGeneratorResponds
    \/ CredentialMissing
    \/ SuggestMultipleMessages

SpecGenerator == InitGenerator /\ [][NextGenerator]_vars

-----------------------------------------------------------------------------
(* The classifier called on bounded change sets *)

MaxCalls == 3

ClassifierStatuses ==
    {Status(<<>>, <<>>, <<>>, <<>>),
     Status(<<Chars("auth.py")>>, <<>>, <<>>, <<>>),
     Status(<<>>, <<Chars("src/app.js"), Chars("lib/Test_app.py")>>, <<>>, <<>>),
     Status(<<>>, <<>>, <<Chars("old_helper.js"), Chars("legacy.js")>>, <<>>),
     Status(<<Chars("main.go")>>, <<Chars("a.py"), Chars("b.py")>>, <<>>, <<Chars("settings.yaml")>>),
     Status(<<Chars("main.go"), Chars("x.GO")>>, <<Chars("a.py"), Chars("Makefile")>>, <<>>, <<>>),
     Status(<<>>, <<Chars("tests/readme_config.py")>>, <<>>, <<>>),
     Status(<<Chars("main.go")>>, <<Chars("a.py")>>, <<>>, <<>>),
     Status(<<Chars("main.go")>>, <<Chars("a.py"), Chars("b.py")>>, <<>>, <<Chars("ci.yml")>>),
     Status(<<Chars("README.md")>>, <<Chars("config/app.py")>>, <<>>, <<>>)}

ClassifierDiffs ==
    {<<>>,
     Chars("+Fix the bug\n+def login(u):"),
     Chars("+def login(u):\n+function Add(a) {\n+const x = 1\n+def login"),
     Chars("Refactor parser\nrefactor; add new function\n+class Foo\n+ let y =2"),
     Chars("+test mock\n+var  a\n= 3"),
     Chars("fix\nbug"),
     Chars("+function e\n+def a\n+def a\n+def b\n+def c\n+def d\n+class Z")}

\* Other diff texts the classifier is asked about between two analyses.
OtherDiffs ==
    {Chars("resolve it; fix this bug, fix that bug"), Chars("style"),
     Chars("Fix a bug\nfix b bug\nstyle")}

\* Every status with an empty diff text, every diff text with the status
\* that names a test path, and a diff text with no path at all.
ClassifierCases ==
    (ClassifierStatuses \X {<<>>})
    \cup ({Status(<<>>, <<Chars("src/app.js"), Chars("lib/Test_app.py")>>, <<>>, <<>>)}
              \X ClassifierDiffs)
    \cup {<<Status(<<>>, <<>>, <<>>, <<>>), Chars("+Fix the bug\n+def login(u):")>>}

ChangeSets ==
    {Git(TRUE, TRUE, c[1],
         IF c[2] = <<>> THEN Stats(0, 0, 0) ELSE Stats(Len(AllFiles(c[1])), 5, 2), c[2]) :
        c \in ClassifierCases}

Call(op, value) == [op |-> op, value |-> value]

InitClassifier ==
    /\ git \in ChangeSets
    /\ lastIndex = FreshLastIndex
    /\ calls = <<>>
    /\ analysis = None
    /\ actionVerbs = ACTION_VERBS
    /\ apiKey = FALSE
    /\ pending = <<>>
    /\ returned = None
    /\ message = <<>>
    /\ validation = None
    /\ CliIdle

\* analyzeChanges returns r.analysis and leaves the patterns as r.lastIndex.
Classified(r) ==
    /\ analysis' = Some(r.analysis)
    /\ lastIndex' = r.lastIndex
    /\ calls' = Append(calls, Call("analyzeChanges", r.analysis))
    /\ UNCHANGED <<git, actionVerbs, apiKey, pending, returned, validatorVars, cliVars>>

AnalyzeChanges ==
    /\ Len(calls) < MaxCalls
    /\ Classified(analyzeChanges(git, lastIndex))

Detected(diffContent, r) ==
    /\ lastIndex' = r.lastIndex
    /\ calls' = Append(calls, Call("detectChangeType",
                                   [diffContent |-> diffContent, change_type |-> r.change_type,
                                    typeScores |-> r.typeScores]))
    /\ UNCHANGED <<git, synthVars, validatorVars, cliVars>>

\* detectChangeType called on another diff text.
DetectChangeType ==
    /\ Len(calls) < MaxCalls
    /\ \E diffContent \in OtherDiffs :
          Detected(diffContent, detectChangeType(diffContent, lastIndex))

Suggested(r) ==
    /\ actionVerbs' = r.actionVerbs
    /\ calls' = Append(calls, Call("suggestMultipleMessages", r.messages))
    /\ UNCHANGED <<git, lastIndex, analysis, apiKey, pending, returned, validatorVars, cliVars>>

\* The synthesizer called on the Analysis of the last classification.
SuggestForAnalysis ==
    /\ Len(calls) < MaxCalls
    /\ analysis # None
    /\ Suggested(suggestMultipleMessages(Get(analysis), 3, actionVerbs))

NextClassifier ==
    \/ AnalyzeChanges
    \/ DetectChangeType
    \/ SuggestForAnalysis

SpecClassifier == InitClassifier /\ [][NextClassifier]_vars

-----------------------------------------------------------------------------
(* The command line workflow: main and SmartCommitAgent *)

GPTOption == Chars("Generate with GPT")

\* What the user may type at 'Enter your commit message:'.
CustomTexts == {<<>>, Chars("  "), Chars(" Fix: Login. "), Chars("fix: typo")}

\* process.exit(code), or main returning (code 0).
Exited(r, code) == [r EXCEPT !.pc = "done", !.exit = Some(code)]

Logged(r, kind, text) == [r EXCEPT !.events = Append(@, Event(kind, text))]

\* commitWithMessage(message), then process.exit(success ? 0 : 1).
Committed(r, msg, success) == Exited(Logged(r, "commit", msg), IF success THEN 0 ELSE 1)

\* A menu that offers the GPT entry whenever a key is set.
MenuOptions_OffersGPTAgain(suggestions, useGPT, key) ==
    suggestions \o (IF key THEN <<GPTOption>> ELSE <<>>)
        \o <<Chars("Write custom message"), Chars("Cancel")>>

\* The array the menu is made of: the suggestions, the GPT entry when GPT was
\* not used and a key is set, the custom entry and Cancel.
MenuOptions(suggestions, useGPT, key) ==
    suggestions \o (IF ~useGPT /\ key THEN <<GPTOption>> ELSE <<>>)
        \o <<Chars("Write custom message"), Chars("Cancel")>>

\* A validation whose warnings never hold the commit up.
ValidatedAs_NeverAsks(r, msg, v) ==
    [Logged(r, "validate", msg) EXCEPT
        !.finalMessage = Some(msg),
        !.validation = Some(v),
        !.pc = "proceed"]

\* interactiveCommit from the validation of finalMessage to the prompt that
\* follows it: 'Continue anyway?' when it is not valid, 'Proceed with commit?'
\* when it is.
ValidatedAs(r, msg, v) ==
    [Logged(r, "validate", msg) EXCEPT
        !.finalMessage = Some(msg),
        !.validation = Some(v),
        !.pc = IF v.ok THEN "proceed" ELSE "continueAnyway"]

Validated(r, msg) == ValidatedAs(r, msg, validateMessage(msg))

\* A GPT failure recorded before the step that follows it.
Failed(r, generated) == IF generated.threw THEN Logged(r, "gpt-failed", generated.error) ELSE r

\* The local path ran when generateGPTMessages had to fall back, or was asked
\* for more than one message.
LocalRan(r, generated, count) ==
    IF generated.threw \/ count > 1 THEN Logged(Failed(r, generated), "local", "") ELSE r

\* suggestions[0] || 'chore: update files'
FirstOrDefault(messages) ==
    IF messages = <<>> \/ messages[1] = <<>> THEN Chars("chore: update files") ELSE messages[1]

\* main up to the dispatch on the mode: the options, the repository check,
\* --stage-all and the check for staged changes.
MainChecked(g, stageFailed) ==
    IF ~g.isRepo \/ stageFailed THEN Exited(run, 1)
    ELSE IF Trim(getStagedDiff(g)) = <<>>
    THEN Exited(Logged(run, "checkStagedChanges", <<>>), 1)
    ELSE [Logged(run, "checkStagedChanges", Trim(getStagedDiff(g))) EXCEPT
             !.pc = "checked", !.useGPT = options.gpt /\ apiKey]

Main ==
    /\ run.pc = "start"
    /\ \E staged \in BOOLEAN :
          /\ git' = IF git.isRepo /\ options.stageAll /\ staged
                    THEN [git EXCEPT !.staged = TRUE] ELSE git
          /\ run' = MainChecked(git', git.isRepo /\ options.stageAll /\ ~staged)
    /\ UNCHANGED <<options, synthVars, validatorVars, lastIndex, calls>>

\* Another process resets the index between the check of main and the
\* analysis: the two read the staged diff with a git command each.
ExternalGitActivity ==
    /\ run.pc = "checked"
    /\ git.staged
    /\ git' = [git EXCEPT !.staged = FALSE]
    /\ UNCHANGED <<options, run, synthVars, validatorVars, lastIndex, calls>>

\* showAnalysisOnly, after which main returns.
ShowAnalysisOnly(local) ==
    /\ run' = Exited(Logged([run EXCEPT !.suggestions = local.messages], "local", ""), 0)
    /\ actionVerbs' = local.actionVerbs

\* autoCommit on its local path: the first suggestion is committed.
AutoLocal(r, local) ==
    /\ \E success \in BOOLEAN :
          run' = Committed(Logged(r, "local", ""), FirstOrDefault(local.messages), success)
    /\ actionVerbs' = local.actionVerbs

\* An autoCommit without the test for an empty status.
AutoCommit_IgnoresEmptyStatus(a) ==
    IF options.message # None /\ Get(options.message) # <<>>
    THEN /\ \E success \in BOOLEAN : run' = Committed(run, Get(options.message), success)
         /\ UNCHANGED actionVerbs
    ELSE IF run.useGPT /\ apiKey /\ ~NoDiffContent(a)
    THEN /\ run' = [Logged(run, "request", "") EXCEPT !.pc = "autoAwait"]
         /\ UNCHANGED actionVerbs
    ELSE AutoLocal(run, suggestMultipleMessages(a, 1, actionVerbs))

\* autoCommit up to its await, or to its end.
AutoCommit(a) ==
    IF AllFiles(a.status) = <<>>
    THEN run' = Exited(run, 1) /\ UNCHANGED actionVerbs
    ELSE IF options.message # None /\ Get(options.message) # <<>>
    THEN /\ \E success \in BOOLEAN : run' = Committed(run, Get(options.message), success)
         /\ UNCHANGED actionVerbs
    ELSE IF run.useGPT /\ apiKey
    THEN IF NoDiffContent(a)
         THEN AutoLocal(Logged(run, "gpt-failed", "no-diff"),
                        suggestMultipleMessages(a, 1, actionVerbs))
         ELSE /\ run' = [Logged(run, "request", "") EXCEPT !.pc = "autoAwait"]
              /\ UNCHANGED actionVerbs
    ELSE AutoLocal(run, suggestMultipleMessages(a, 1, actionVerbs))

\* interactiveCommit shows the menu for the local suggestions.
MenuLocal(r, local) ==
    /\ run' = [Logged(r, "local", "") EXCEPT !.suggestions = local.messages, !.pc = "menu"]
    /\ actionVerbs' = local.actionVerbs

\* interactiveCommit up to its first await: the GPT call or the menu.
InteractiveCommit(a) ==
    IF AllFiles(a.status) = <<>>
    THEN run' = Exited(run, 1) /\ UNCHANGED actionVerbs
    ELSE IF run.useGPT /\ apiKey
    THEN IF NoDiffContent(a)
         THEN MenuLocal(Logged(run, "gpt-failed", "no-diff"),
                        suggestMultipleMessages(a, 3, actionVerbs))
         ELSE /\ run' = [Logged(run, "request", "") EXCEPT !.pc = "upfrontAwait"]
              /\ UNCHANGED actionVerbs
    ELSE MenuLocal(run, suggestMultipleMessages(a, 3, actionVerbs))

\* The mode main selects, entered with the Analysis its first statement makes.
DispatchOn(c) ==
    /\ analysis' = Some(c.analysis)
    /\ lastIndex' = c.lastIndex
    /\ IF options.analyzeOnly \/ options.dryRun
       THEN ShowAnalysisOnly(suggestMultipleMessages(c.analysis, 3, actionVerbs))
       ELSE IF options.auto THEN AutoCommit(c.analysis)
       ELSE InteractiveCommit(c.analysis)
    /\ UNCHANGED <<options, git, apiKey, pending, returned, validatorVars, calls>>

Dispatch ==
    /\ run.pc = "checked"
    /\ DispatchOn(analyzeChanges(git, lastIndex))

\* What generateGPTMessages(analysis, count) returns when its request is
\* answered with the response, and the verb table it leaves.
GPTMessages(response, count) ==
    generateGPTMessagesResume(Get(analysis), count, generateMessageWithGPT(apiKey, response),
                              actionVerbs)

\* The run after the await: with the failure and the local path it took.
Awaited(response, count) == LocalRan(run, generateMessageWithGPT(apiKey, response), count)

\* The workflow goes on as r with the table the call left.
ResumedAs(r, verbTable) ==
    /\ run' = r
    /\ actionVerbs' = verbTable
    /\ UNCHANGED <<options, git, analysis, apiKey, pending, returned, validatorVars,
                   lastIndex, calls>>

\* autoCommit commits gptSuggestions[0].
AutoGPTResponds ==
    /\ run.pc = "autoAwait"
    /\ \E response \in Responses, success \in BOOLEAN :
          ResumedAs(Committed(Awaited(response, 1), GPTMessages(response, 1).result.value[1],
                              success),
                    GPTMessages(response, 1).actionVerbs)

\* interactiveCommit shows the menu for what generateGPTMessages returned.
UpfrontGPTResponds ==
    /\ run.pc = "upfrontAwait"
    /\ \E response \in Responses :
          ResumedAs([Awaited(response, 3) EXCEPT
                        !.suggestions = GPTMessages(response, 3).result.value, !.pc = "menu"],
                    GPTMessages(response, 3).actionVerbs)

\* finalMessage = gptSuggestions[0], which is validated.
MenuGPTResponds ==
    /\ run.pc = "menuAwait"
    /\ \E response \in Responses :
          ResumedAs(Validated(Awaited(response, 1), GPTMessages(response, 1).result.value[1]),
                    GPTMessages(response, 1).actionVerbs)

\* The branches on choiceIdx, for the menu shown.
ChosenFrom(menu, choice) ==
    IF choice = Len(menu) THEN Exited(Logged(run, "cancelled", "menu"), 1)
    ELSE IF choice = Len(menu) - 1 THEN [run EXCEPT !.pc = "customInput"]
    ELSE IF menu[choice] = GPTOption
    THEN IF NoDiffContent(Get(analysis))
         THEN Exited(Logged(run, "gpt-failed", "no-diff"), 1)
         ELSE [Logged(run, "request", "") EXCEPT !.pc = "menuAwait"]
    ELSE Validated(run, run.suggestions[choice])

\* The user selects an entry of the menu.
Choose ==
    /\ run.pc = "menu"
    /\ \E choice \in 1..Len(MenuOptions(run.suggestions, run.useGPT, apiKey)) :
          run' = ChosenFrom(MenuOptions(run.suggestions, run.useGPT, apiKey), choice)
    /\ UNCHANGED <<options, git, synthVars, validatorVars, lastIndex, calls>>

\* The user enters a custom message.
EnterCustomMessage ==
    /\ run.pc = "customInput"
    /\ \E text \in CustomTexts :
          run' = IF Trim(text) = <<>> THEN Exited(Logged(run, "cancelled", "customInput"), 1)
                 ELSE Validated(run, Trim(text))
    /\ UNCHANGED <<options, git, synthVars, validatorVars, lastIndex, calls>>

\* The user answers 'Continue anyway?'.
ContinueAnyway ==
    /\ run.pc = "continueAnyway"
    /\ \E continueAnyway \in BOOLEAN :
          run' = IF continueAnyway
                 THEN [Logged(run, "confirm", "continueAnyway") EXCEPT !.pc = "proceed"]
                 ELSE Exited(Logged(run, "cancelled", "continueAnyway"), 1)
    /\ UNCHANGED <<options, git, synthVars, validatorVars, lastIndex, calls>>

\* The user answers 'Proceed with commit?'.
Proceed ==
    /\ run.pc = "proceed"
    /\ \E proceed \in BOOLEAN, success \in BOOLEAN :
          run' = IF proceed
                 THEN Committed(Logged(run, "confirm", "proceed"), Get(run.finalMessage), success)
                 ELSE Exited(Logged(run, "cancelled", "proceed"), 1)
    /\ UNCHANGED <<options, git, synthVars, validatorVars, lastIndex, calls>>

\* The command lines, keys and repositories the workflow is run with.
CommandLines ==
    [auto : BOOLEAN, message : {None, Some(Chars("Bad Message."))}, stageAll : BOOLEAN,
     analyzeOnly : BOOLEAN, dryRun : BOOLEAN, gpt : BOOLEAN]

Repositories ==
    {NoGit,
     Git(TRUE, TRUE, Status(<<>>, <<>>, <<>>, <<>>), Stats(0, 0, 0), <<>>),
     Git(TRUE, TRUE, Status(<<>>, <<>>, <<>>, <<>>), Stats(1, 1, 1), Chars("old mode 100644")),
     Git(TRUE, TRUE, Status(<<>>, <<Chars("auth.py")>>, <<>>, <<>>), Stats(1, 45, 2),
         Chars("+def login")),
     Git(TRUE, FALSE, Status(<<>>, <<Chars("auth.py")>>, <<>>, <<>>), Stats(1, 45, 2),
         Chars("+def login"))}

Init ==
    /\ options \in CommandLines
    /\ git \in Repositories
    /\ apiKey \in BOOLEAN
    /\ run = NoRun
    /\ actionVerbs = ACTION_VERBS
    /\ lastIndex = FreshLastIndex
    /\ calls = <<>>
    /\ analysis = None
    /\ pending = <<>>
    /\ returned = None
    /\ message = <<>>
    /\ validation = None

Next ==
    \/ Main
    \/ ExternalGitActivity
    \/ Dispatch
    \/ AutoGPTResponds
    \/ UpfrontGPTResponds
    \/ MenuGPTResponds
    \/ Choose
    \/ EnterCustomMessage
    \/ ContinueAnyway
    \/ Proceed

Spec == Init /\ [][Next]_vars

-----------------------------------------------------------------------------
(* The validation rules, as the message format contract states them *)

Subject(msg) == SplitFirst(msg, <<"\n">>)

\* Rule (1): type, an optional non-empty scope in parentheses, ": " and a
\* non-empty description, with the type one of the eleven commit types.
ConventionalSubject(s) ==
    \E t \in 1..Len(SubjectTypes) :
        /\ StartsWith(s, SubjectTypes[t])
        /\ LET n == Len(SubjectTypes[t])
           IN  \/ Slice(s, n + 1, n + 2) = Chars(": ") /\ Len(s) > n + 2
               \/ /\ Len(s) > n /\ s[n + 1] = "("
                  /\ \E close \in (n + 3)..Len(s) :
                        Slice(s, close, close + 2) = Chars("): ") /\ Len(s) > close + 2

\* Rule (3): the trimmed text after the first colon starts with an uppercase letter.
CapitalAfterFirstColon(s) ==
    /\ Includes(s, <<":">>)
    /\ LET rest == Trim(Drop(s, IndexOf(s, <<":">>)))
       IN  rest # <<>> /\ rest[1] \in UpperCase

\* The messages of the violated rules among (1)..(4).
ViolatedRules(msg) ==
    LET s == Subject(msg)
    IN  {e \in {ErrFormat, ErrLength, ErrCapital, ErrPeriod} :
            \/ e = ErrFormat /\ ~ConventionalSubject(s)
            \/ e = ErrLength /\ Len(s) > 72
            \/ e = ErrCapital /\ CapitalAfterFirstColon(s)
            \/ e = ErrPeriod /\ s # <<>> /\ s[Len(s)] = "."}

\* C1: validateMessage returns exactly one entry for every violated rule among
\* format, length (73 fails, 72 passes), capital after the first colon and
\* trailing period, nothing else, and ok is true exactly when there is none.
C1_ValidatorReportsEveryViolation ==
    validation # None =>
        LET v == Get(validation)
        IN  /\ {v.errors[i] : i \in 1..Len(v.errors)} = ViolatedRules(message)
            /\ Len(v.errors) = Cardinality(ViolatedRules(message))
            /\ v.ok <=> (v.errors = <<>>)

\* A 73-character subject that breaks all four rules at once.
C1_Witness ==
    /\ validation # None
    /\ Len(Subject(message)) = 73
    /\ Len(Get(validation).errors) = 4

-----------------------------------------------------------------------------
(* Properties of the synthesizer *)

Completed(op) == returned # None /\ Get(returned).op = op

\* C2: for every change type (mapped or not), status shape, scope and entity
\* list, the string generateSubject returns passes the validator's format
\* expression: a commit type, an optional non-empty scope in parentheses, ": "
\* and a non-empty description.
C2_SubjectMatchesFormat ==
    Completed("generateSubject") => SubjectFormatTest(Get(returned).value[1])

\* A subject made from an unmapped change type, an empty status and the scope 'other'.
C2_Witness ==
    /\ Completed("generateSubject")
    /\ Get(analysis).change_type = Chars("unknown")
    /\ Get(analysis).status = Status(<<>>, <<>>, <<>>, <<>>)
    /\ Get(analysis).scope = Some(Chars("other"))
    /\ Get(returned).value[1] = Chars("feat: add 0 files")

\* The number of messages suggestMultipleMessages collects for a count: the
\* primary one, the second-verb one when the type's verb list has two verbs,
\* the generic one.
SuggestionCount(a, count, verbTable) ==
    1 + (IF count > 1 /\ Len(VerbsOf(verbTable, CommitTypeOf(a.change_type))) > 1 THEN 1 ELSE 0)
      + (IF count > 2 THEN 1 ELSE 0)

\* C3 as stated: suggestMultipleMessages returns exactly count strings, the
\* first of which is generateFullMessage(analysis, false).
C3_ExactlyCount ==
    Completed("suggestMultipleMessages") =>
        /\ Len(Get(returned).value) = Get(returned).count
        /\ Get(returned).value[1] = generateFullMessage(Get(analysis), FALSE, actionVerbs)

\* C3, amended: suggestMultipleMessages returns at least one and at most
\* min(count, 3) strings: the primary one, the second-verb one when count > 1
\* and the type's verb list has two entries, the generic one when count > 2;
\* the first is generateFullMessage(analysis, false).
C3_AtMostThree ==
    Completed("suggestMultipleMessages") =>
        LET r == Get(returned)
        IN  /\ Len(r.value) = SuggestionCount(Get(analysis), r.count, actionVerbs)
            /\ Len(r.value) >= 1
            /\ Len(r.value) <= r.count /\ Len(r.value) <= 3
            /\ r.value[1] = generateFullMessage(Get(analysis), FALSE, actionVerbs)

\* Four suggestions asked of a type with several verbs, three returned.
C3_Witness ==
    /\ Completed("suggestMultipleMessages")
    /\ Get(returned).count = 4
    /\ Len(Get(returned).value) = 3
    /\ actionVerbs = ACTION_VERBS

\* The prefix the subject format gives a commit type and a scope.
SubjectPrefix(type, scope) ==
    IF scope # None /\ Get(scope) # <<>> /\ Get(scope) # Chars("other")
    THEN type \o <<"(">> \o Get(scope) \o <<")">> \o Chars(": ")
    ELSE type \o Chars(": ")

\* C9: the subject is type(scope): description exactly when the scope is
\* present, non-empty and not 'other', and type: description otherwise; the
\* type is the table image of the change type, 'feat' when it has none.
C9_ScopeShownUnlessOther ==
    Completed("generateSubject") =>
        LET a == Get(analysis)
            type == IF a.change_type \in DOMAIN TYPE_MAPPING
                    THEN TYPE_MAPPING[a.change_type] ELSE Chars("feat")
            subject == Get(returned).value[1]
            prefix == SubjectPrefix(type, a.scope)
        IN  /\ StartsWith(subject, prefix)
            /\ Drop(subject, Len(prefix)) = _generateDescription(a, type, actionVerbs)
            /\ (subject[Len(type) + 1] = "(") <=> ScopeShown(a.scope)

\* A subject for the scope 'other', printed without parentheses.
C9_Witness ==
    /\ Completed("generateSubject")
    /\ Get(analysis).scope = Some(Chars("other"))
    /\ Get(analysis).change_type = Chars("fix")
    /\ StartsWith(Get(returned).value[1], Chars("fix: "))

\* The commit type of an analysis: the table image of its change type, 'feat'
\* when it has none.
TypeFor(a) ==
    IF a.change_type \in DOMAIN TYPE_MAPPING THEN TYPE_MAPPING[a.change_type] ELSE Chars("feat")

\* The verb list the table in use holds for the commit type, ['update'] when
\* it holds none.
VerbsFor(a) ==
    IF TypeFor(a) \in DOMAIN actionVerbs THEN actionVerbs[TypeFor(a)] ELSE <<Chars("update")>>

\* The humanized filename: the last segment of the path without its extension,
\* underscores and hyphens turned into spaces.
LastSegment(path) ==
    IF \E i \in DOMAIN path : path[i] = "/"
    THEN Drop(path, Max({i \in DOMAIN path : path[i] = "/"}))
    ELSE path

WithoutExtension(base) ==
    IF \E i \in 2..Len(base) : base[i] = "."
    THEN Take(base, Max({i \in 2..Len(base) : base[i] = "."}) - 1)
    ELSE base

Humanized(path) ==
    [i \in 1..Len(WithoutExtension(LastSegment(path))) |->
        IF WithoutExtension(LastSegment(path))[i] \in {"_", "-"} THEN " "
        ELSE WithoutExtension(LastSegment(path))[i]]

PureAddition(st) == st.added # <<>> /\ st.modified = <<>> /\ st.deleted = <<>>

PureDeletion(st) == st.deleted # <<>> /\ st.added = <<>> /\ st.modified = <<>>

PureModification(st) == st.modified # <<>> /\ st.added = <<>> /\ st.deleted = <<>>

Mixed(st) == ~PureAddition(st) /\ ~PureDeletion(st) /\ ~PureModification(st)

TotalFiles(st) == Len(st.added) + Len(st.modified) + Len(st.deleted)

\* '<verb> <words>'
VerbThen(a, words) == VerbsFor(a)[1] \o <<" ">> \o words

\* C21: in the pure-addition shape the description is '<verb> <humanized
\* filename>' for one added file and '<verb> <N> new files' otherwise; in the
\* pure-deletion shape it is 'remove <humanized filename>' or 'remove <N>
\* files'; neither depends on the entities or on the renamed paths.
C21_PureAdditionAndDeletion ==
    Completed("_generateDescription") =>
        LET a == Get(analysis)
            description == Get(returned).value[1]
        IN  /\ PureAddition(a.status) =>
                  description =
                      IF Len(a.status.added) = 1 THEN VerbThen(a, Humanized(a.status.added[1]))
                      ELSE VerbThen(a, NumberToString(Len(a.status.added)) \o Chars(" new files"))
            /\ PureDeletion(a.status) =>
                  description =
                      IF Len(a.status.deleted) = 1
                      THEN Chars("remove ") \o Humanized(a.status.deleted[1])
                      ELSE Chars("remove ") \o NumberToString(Len(a.status.deleted))
                               \o Chars(" files")

\* auth.py added, with the entities login and authenticate: 'add auth'.
C21_Witness ==
    /\ Completed("_generateDescription")
    /\ Get(analysis).status = Status(<<Chars("auth.py")>>, <<>>, <<>>, <<>>)
    /\ Get(analysis).entities = <<Chars("login"), Chars("authenticate")>>
    /\ Get(returned).value[1] = Chars("add auth")

\* C22: in the pure-modification shape the description is '<verb> <entity>
\* function' for one entity, '<verb> <e1, e2, ...> functions' with all of them
\* in order for two or three, '<verb> multiple functions' for four or five,
\* and without entities '<verb> <humanized filename>' for one modified file
\* and '<verb> <N> files' for more.
C22_PureModification ==
    (Completed("_generateDescription") /\ PureModification(Get(analysis).status)) =>
        LET a == Get(analysis)
            n == Len(a.entities)
        IN  Get(returned).value[1] =
                IF n = 1 THEN VerbThen(a, a.entities[1] \o Chars(" function"))
                ELSE IF n \in {2, 3}
                THEN VerbThen(a, Join(a.entities, Chars(", ")) \o Chars(" functions"))
                ELSE IF n \in {4, 5} THEN VerbThen(a, Chars("multiple functions"))
                ELSE IF Len(a.status.modified) = 1
                THEN VerbThen(a, Humanized(a.status.modified[1]))
                ELSE VerbThen(a, NumberToString(Len(a.status.modified)) \o Chars(" files"))

\* Three entities in a modified file, all listed.
C22_Witness ==
    /\ Completed("_generateDescription")
    /\ PureModification(Get(analysis).status)
    /\ Len(Get(analysis).entities) = 3
    /\ Get(returned).value[1] = Chars("fix login, authenticate, User functions")

\* The entities decide the description of the mixed shape.
Qualifying(a) ==
    a.entities # <<>> /\ TypeFor(a) \in {Chars("feat"), Chars("fix"), Chars("refactor")}

\* C23: in the mixed shape, with entities and the commit type feat, fix or
\* refactor the description is '<verb> <entity>' for one entity and '<verb>
\* <entity[0]> and related functionality' for more; for every other type, or
\* without entities, it is '<verb> <N> files' with N = |added| + |modified| +
\* |deleted|, whatever the entities are.
C23_MixedShape ==
    (Completed("_generateDescription") /\ Mixed(Get(analysis).status)) =>
        LET a == Get(analysis)
        IN  Get(returned).value[1] =
                IF Qualifying(a) /\ Len(a.entities) = 1 THEN VerbThen(a, a.entities[1])
                ELSE IF Qualifying(a)
                THEN VerbThen(a, a.entities[1] \o Chars(" and related functionality"))
                ELSE VerbThen(a, NumberToString(TotalFiles(a.status)) \o Chars(" files"))

\* A docs change that adds one file and modifies another: the entities are ignored.
C23_Witness ==
    /\ Completed("_generateDescription")
    /\ Get(analysis).status = Status(<<Chars("auth.py")>>, <<Chars("README.md")>>, <<>>, <<>>)
    /\ Get(analysis).change_type = Chars("docs")
    /\ Len(Get(analysis).entities) = 2
    /\ Get(returned).value[1] = Chars("update 2 files")

\* The lines of the body that qualify, in their order.
QualifyingLines(a) ==
    (IF a.stats.files_changed <= 3 THEN <<>>
     ELSE <<Chars("Modified ") \o NumberToString(a.stats.files_changed) \o Chars(" files")>>)
    \o (IF a.stats.insertions <= 20 /\ a.stats.deletions <= 20 THEN <<>>
        ELSE <<Chars("+") \o NumberToString(a.stats.insertions) \o Chars(" -")
               \o NumberToString(a.stats.deletions) \o Chars(" lines")>>)
    \o (IF Len(a.entities) <= 1 THEN <<>>
        ELSE <<Chars("Updated functions: ") \o Join(a.entities, Chars(", "))>>)
    \o (IF Len(a.file_types) <= 2 THEN <<>>
        ELSE <<Chars("Affected: ")
               \o Join([i \in DOMAIN a.file_types |-> a.file_types[i].type], Chars(", "))
               \o Chars(" files")>>)

\* C24: generateBody returns null exactly when files_changed <= 3, insertions
\* <= 20, deletions <= 20, there is at most one entity and there are at most
\* two file types; otherwise it returns the qualifying lines in the order
\* 'Modified N files', '+I -D lines', 'Updated functions: ...', 'Affected:
\* ...'. generateFullMessage returns the subject, a blank line and the body
\* when includeBody is true and the body is not null, and the subject alone
\* in every other case.
C24_BodyAndFullMessage ==
    LET a == Get(analysis)
        quiet == /\ a.stats.files_changed <= 3
                 /\ a.stats.insertions <= 20 /\ a.stats.deletions <= 20
                 /\ Len(a.entities) <= 1
                 /\ Len(a.file_types) <= 2
    IN  /\ Completed("generateBody") =>
              /\ (Get(returned).value = <<>>) <=> quiet
              /\ ~quiet => Get(returned).value = <<Join(QualifyingLines(a), <<"\n">>)>>
        /\ Completed("generateFullMessage") =>
              Get(returned).value[1] =
                  IF Get(returned).count = 1 /\ ~quiet
                  THEN generateSubject(a, actionVerbs) \o Chars("\n\n")
                           \o Join(QualifyingLines(a), <<"\n">>)
                  ELSE generateSubject(a, actionVerbs)

\* A full message with a body of three lines.
C24_Witness ==
    /\ Completed("generateFullMessage")
    /\ Get(returned).count = 1
    /\ Get(returned).value[1] =
           Chars("feat(python): add auth\n\n+0 -21 lines\n")
           \o Chars("Updated functions: login, authenticate, User, x, y\n")
           \o Chars("Affected: python, javascript, config files")

\* C25: when count >= 2 and the verb list of the commit type has at least two
\* entries, the second suggestion is the subject of the same shape with the
\* second verb of the list in place of the first; a list with a single entry
\* yields no second-verb suggestion.
C25_SecondVerbSuggestion ==
    (Completed("suggestMultipleMessages") /\ Get(returned).count >= 2) =>
        LET a == Get(analysis)
            r == Get(returned)
        IN  IF Len(VerbsFor(a)) >= 2
            THEN r.value[2] =
                     SubjectPrefix(TypeFor(a), a.scope)
                     \o Describe(a.status, a.entities, TypeFor(a), VerbsFor(a)[2])
            ELSE Len(r.value) = (IF r.count > 2 THEN 2 ELSE 1)

\* Two suggestions for the added auth.py: 'add' and 'implement'.
C25_Witness ==
    /\ Completed("suggestMultipleMessages")
    /\ Get(returned).count = 2
    /\ Get(returned).value =
           <<Chars("feat(python): add auth"), Chars("feat(python): implement auth")>>

C30_MixedTotalIsNeverOne ==
    (Completed("_generateDescription") /\ Mixed(Get(analysis).status)) =>
        LET a == Get(analysis)
            description == Get(returned).value[1]
        IN  /\ TotalFiles(a.status) # 1
            /\ ~Qualifying(a) => EndsWith(description, Chars(" files"))
            /\ (~Qualifying(a) /\ TotalFiles(a.status) = 0 /\ a.status.renamed # <<>>) =>
                  description = VerbThen(a, Chars("0 files"))

\* A style change that only renames a.txt: 'format 0 files'.
C30_Witness ==
    /\ Completed("_generateDescription")
    /\ Get(analysis).status = Status(<<>>, <<>>, <<>>, <<Chars("a.txt")>>)
    /\ Get(analysis).change_type = Chars("style")
    /\ Get(returned).value[1] = Chars("format 0 files")

-----------------------------------------------------------------------------
(* Properties of the external generator *)

\* The errors generateMessageWithGPT throws.
FailureKinds == {"missing-credential", "invalid-credential", "rate-limited", "other"}

\* C4: for an analysis with nonblank diff text, when the external generator
\* fails (no key, rejected key, rate limit, any other error)
\* generateGPTMessages does not throw and returns what
\* suggestMultipleMessages(analysis, count) returns.
C4_FailureFallsBackToLocal ==
    (Completed("generateGPTMessages") /\ Get(returned).outcome.kind \in FailureKinds) =>
        /\ ~NoDiffContent(Get(analysis))
        /\ ~Get(returned).threw
        /\ Get(returned).value =
               suggestMultipleMessages(Get(analysis), Get(returned).count, actionVerbs).messages

\* A rate-limited call for three suggestions that returned the three local ones.
C4_Witness ==
    /\ Completed("generateGPTMessages")
    /\ Get(returned).outcome.kind = "rate-limited"
    /\ Get(returned).count = 3
    /\ ~Get(returned).threw
    /\ Len(Get(returned).value) = 3

\* C6: when the external generator succeeds and N > 1 suggestions are asked
\* for, generateGPTMessages returns at most N strings: the external message
\* first, then exactly suggestMultipleMessages(analysis, N - 1), in order.
C6_OnlyFirstIsExternal ==
    (Completed("generateGPTMessages") /\ Get(returned).outcome.kind = "completion"
        /\ Get(returned).count > 1) =>
        LET r == Get(returned)
        IN  /\ ~r.threw
            /\ Len(r.value) >= 1 /\ Len(r.value) <= r.count
            /\ r.value[1] = r.outcome.content
            /\ Tail(r.value) =
                   suggestMultipleMessages(Get(analysis), r.count - 1, actionVerbs).messages

\* Four suggestions asked for: the cleaned external message and three local ones.
C6_Witness ==
    /\ Completed("generateGPTMessages")
    /\ Get(returned).outcome.kind = "completion"
    /\ Get(returned).count = 4
    /\ Len(Get(returned).value) = 4
    /\ Get(returned).value[1] = Chars("Fix: Login.\"")
    /\ Get(returned).value[2] = Chars("feat(python): add auth")

\* Two calls of suggestMultipleMessages in a row, the later one asked for at
\* least as many messages.
SuggestedAgain ==
    /\ returned # None /\ Get(returned).op = "suggestMultipleMessages"
    /\ returned' # None /\ Get(returned').op = "suggestMultipleMessages"
    /\ Get(returned).count <= Get(returned').count

-----------------------------------------------------------------------------
(* Properties of the classifier *)

AnalysisCalls(log) == {i \in DOMAIN log : log[i].op = "analyzeChanges"}

\* C7: for every change set whose status lists are all empty, the classifier
\* returns the change type "feature" and the scope null.
C7_EmptyStatusIsFeature ==
    \A i \in AnalysisCalls(calls) :
        AllFiles(calls[i].value.status) = <<>> =>
            /\ calls[i].value.change_type = Chars("feature")
            /\ calls[i].value.scope = None

\* C8: classification is deterministic and idempotent: every analysis of the
\* same change set yields the same Analysis, whatever classifier and
\* synthesizer calls are made in between.
C8_ClassificationIsIdempotent ==
    \A i, j \in AnalysisCalls(calls) : calls[i].value = calls[j].value

\* Two analyses of a change set with a fix, a test path and an entity, with
\* another call between them.
C8_Witness ==
    /\ Len(calls) = 3
    /\ calls[1].op = "analyzeChanges"
    /\ calls[2].op # "analyzeChanges"
    /\ calls[3].op = "analyzeChanges"
    /\ calls[3].value.change_type = Chars("fix")
    /\ calls[3].value.scope = Some(Chars("test"))
    /\ calls[3].value.entities = <<Chars("login")>>

DetectCalls(log) == {i \in DOMAIN log : log[i].op = "detectChangeType"}

\* The suggestions made for the analysis of the change set that only deletes
\* old_helper.js and legacy.js, with an empty diff text.
DeletedPairSuggestions ==
    {i \in DOMAIN calls :
        /\ calls[i].op = "suggestMultipleMessages"
        /\ Get(analysis).status =
               Status(<<>>, <<>>, <<Chars("old_helper.js"), Chars("legacy.js")>>, <<>>)
        /\ Get(analysis).diff_content = <<>>}

\* C14 as stated: for the change set whose only status entries are the deleted
\* old_helper.js and legacy.js, the pipeline produces the subject
\* 'feat: remove 2 files'.
C14_DeletedPairWithoutScope ==
    \A i \in DeletedPairSuggestions : calls[i].value[1] = Chars("feat: remove 2 files")

\* C14, amended: for that change set the pipeline produces the subject
\* 'feat(javascript): remove 2 files': the two paths share one category, which
\* is the scope.
C14_DeletedPairWithScope ==
    \A i \in DeletedPairSuggestions :
        /\ Get(analysis).scope = Some(Chars("javascript"))
        /\ calls[i].value[1] = Chars("feat(javascript): remove 2 files")

\* The two deletions analysed and the subject suggested for them.
C14_Witness ==
    /\ DeletedPairSuggestions # {}
    /\ Get(analysis).change_type = Chars("feat")
    /\ Get(analysis).file_types = <<[type |-> Chars("javascript"), count |-> 2]>>

\* The number of matches of a pattern in the text after the first `from`
\* characters, each search starting where the last match ended.
RECURSIVE MatchCount(_, _, _)
MatchCount(s, from, pattern) ==
    IF MatchPositions(s, from, pattern) = {} THEN 0
    ELSE 1 + MatchCount(s, MatchEnd(s, Min(MatchPositions(s, from, pattern)), pattern), pattern)

\* C15: the score detectChangeType gives a category is the total number of
\* matches of the category's patterns in the diff text: a pattern that occurs
\* k times contributes k.
C15_ScoreCountsEveryMatch ==
    \A i \in DetectCalls(calls) : \A t \in DOMAIN changePatterns :
        calls[i].value.typeScores[t] =
            Sum([k \in DOMAIN changePatterns[t].patterns |->
                    MatchCount(ToLowerCase(calls[i].value.diffContent), 0,
                               changePatterns[t].patterns[k])])

\* The positions of the greatest numbers of a sequence.
Greatest(xs) == {i \in DOMAIN xs : \A j \in DOMAIN xs : xs[i] >= xs[j]}

\* Rule (d) of determineScope decides: several keys, and no path that a path
\* rule picks up.
MostFrequentDecides(a) ==
    /\ Len(a.file_types) > 1
    /\ \A i \in DOMAIN AllFiles(a.status) :
          /\ ~MentionsTest(AllFiles(a.status)[i])
          /\ ~MentionsDocs(AllFiles(a.status)[i])
          /\ ~MentionsConfig(AllFiles(a.status)[i])

\* C16: when some category score is nonzero detectChangeType returns a
\* category whose score is at least every other score, and of the categories
\* that share the greatest score the last one of the table; rule (d) of
\* determineScope returns the last of the file type keys with the greatest count.
C16_LastOfTheGreatestWins ==
    /\ \A i \in DetectCalls(calls) :
          (\E t \in DOMAIN changePatterns : calls[i].value.typeScores[t] > 0) =>
              calls[i].value.change_type =
                  changePatterns[Max(Greatest(calls[i].value.typeScores))].type
    /\ \A i \in AnalysisCalls(calls) :
          MostFrequentDecides(calls[i].value) =>
              calls[i].value.scope =
                  Some(calls[i].value.file_types[
                          Max(Greatest([k \in DOMAIN calls[i].value.file_types |->
                                           calls[i].value.file_types[k].count]))].type)

\* 'fix' and 'style' score 1 each and 'style' is returned; golang and python
\* count one file each and python is the scope.
C16_Witness ==
    \E i \in DetectCalls(calls), j \in AnalysisCalls(calls) :
        /\ calls[i].value.typeScores = <<0, 1, 0, 0, 1, 0, 0>>
        /\ calls[i].value.change_type = Chars("style")
        /\ FileTypeKeys(calls[j].value.file_types) = <<Chars("golang"), Chars("python")>>
        /\ calls[j].value.scope = Some(Chars("python"))

\* The names the entity patterns match in the diff text, pattern after pattern.
MatchList(diffContent) ==
    Flatten([k \in DOMAIN entityPatterns |-> ExecAll(diffContent, 0, entityPatterns[k])])

FirstIndex(xs, x) == Min({i \in DOMAIN xs : xs[i] = x})

\* C17: entities has at most 5 elements, they are pairwise distinct, and it
\* is the prefix of length 5 of the de-duplicated match list: its i-th element
\* is the i-th distinct name of the match list, so a repeated name takes no slot.
C17_EntitiesAreFirstFiveDistinct ==
    \A c \in AnalysisCalls(calls) :
        LET e == calls[c].value.entities
            all == MatchList(calls[c].value.diff_content)
        IN  /\ Len(e) <= 5
            /\ \A i, j \in DOMAIN e : i # j => e[i] # e[j]
            /\ Len(e) = Min({5, Cardinality(Range(all))})
            /\ \A i \in DOMAIN e :
                  /\ e[i] \in Range(all)
                  /\ Cardinality({x \in Range(all) : FirstIndex(all, x) < FirstIndex(all, e[i])})
                         = i - 1

\* Seven matches of six names, one of them twice: five entities.
C17_Witness ==
    \E c \in AnalysisCalls(calls) :
        /\ Len(MatchList(calls[c].value.diff_content)) = 7
        /\ Cardinality(Range(MatchList(calls[c].value.diff_content))) = 6
        /\ Len(calls[c].value.entities) = 5

\* The position of the first declaration of a name in the diff text, whatever
\* the keyword that declares it.
FirstDeclaration(s, name) ==
    Min({k \in 1..Len(s) :
            \E p \in DOMAIN entityPatterns :
                /\ KeywordMatch(s, k, entityPatterns[p]) # None
                /\ Get(KeywordMatch(s, k, entityPatterns[p])).name = name})

\* C18: entities are ordered by first occurrence in the diff text: a name
\* whose first declaration comes before that of another name precedes it in
\* entities, whichever patterns matched the two.
C18_EntitiesInTextOrder ==
    \A c \in AnalysisCalls(calls) :
        LET e == calls[c].value.entities
            s == calls[c].value.diff_content
        IN  \A i, j \in DOMAIN e :
                FirstDeclaration(s, e[i]) < FirstDeclaration(s, e[j]) => i < j

\* Some path contains one of the words, in any case.
PathMentions(files, words) ==
    \E i \in DOMAIN files, w \in words : Includes(ToLowerCase(files[i]), Chars(w))

\* C19: determineScope applies its rules in strict precedence: a single file
\* type key is the scope whatever the paths contain; otherwise a path with
\* 'test' gives 'test', else one with 'doc' or 'readme' gives 'docs', else the
\* config rule gives 'config', else a most frequent category is the scope; the
\* scope is null exactly when there is no file type.
C19_ScopeRulesInOrder ==
    \A c \in AnalysisCalls(calls) :
        LET a == calls[c].value
            files == AllFiles(a.status)
            several == Len(a.file_types) > 1
            test == PathMentions(files, {"test"})
            docs == PathMentions(files, {"doc", "readme"})
            config == \E i \in DOMAIN files : MentionsConfig(files[i])
        IN  /\ Len(a.file_types) = 1 => a.scope = Some(a.file_types[1].type)
            /\ (several /\ test) => a.scope = Some(Chars("test"))
            /\ (several /\ ~test /\ docs) => a.scope = Some(Chars("docs"))
            /\ (several /\ ~test /\ ~docs /\ config) => a.scope = Some(Chars("config"))
            /\ (several /\ ~test /\ ~docs /\ ~config) =>
                  \E k \in Greatest([n \in DOMAIN a.file_types |-> a.file_types[n].count]) :
                      a.scope = Some(a.file_types[k].type)
            /\ (a.scope = None) <=> (a.file_types = <<>>)

\* A single python file whose path contains 'test', 'readme' and 'config'.
C19_Witness ==
    \E c \in AnalysisCalls(calls) :
        /\ AllFiles(calls[c].value.status) = <<Chars("tests/readme_config.py")>>
        /\ calls[c].value.scope = Some(Chars("python"))

ConfigExtensions == {".json", ".yaml", ".yml", ".xml", ".toml"}

\* C20: with two or more file type keys and no path containing 'test', 'doc'
\* or 'readme', the scope is 'config' whenever a path contains 'config' or
\* ends in .json, .yaml, .yml, .xml or .toml, however many files of other
\* categories there are.
C20_ConfigExtensionGivesConfig ==
    \A c \in AnalysisCalls(calls) :
        LET a == calls[c].value
            files == AllFiles(a.status)
        IN  (/\ Len(a.file_types) > 1
             /\ ~PathMentions(files, {"test", "doc", "readme"})
             /\ \/ PathMentions(files, {"config"})
                \/ \E i \in DOMAIN files, ext \in ConfigExtensions :
                       EndsWith(files[i], Chars(ext))) =>
                a.scope = Some(Chars("config"))

\* The categories of the extension table, and 'other'.
Categories == {fileExtensions[e] : e \in DOMAIN fileExtensions} \cup {Chars("other")}

\* C29: the file type counts of every analysis have values >= 1 and keys that
\* are categories of the extension table or 'other', and their sum is |added|
\* + |modified| + |deleted| + |renamed|, whatever stats.files_changed is.
C29_FileTypeCounts ==
    \A c \in AnalysisCalls(calls) :
        LET a == calls[c].value
        IN  /\ \A i \in DOMAIN a.file_types :
                  /\ a.file_types[i].count >= 1
                  /\ a.file_types[i].type \in Categories
                  /\ \A j \in DOMAIN a.file_types :
                        a.file_types[i].type = a.file_types[j].type => i = j
            /\ Sum([i \in DOMAIN a.file_types |-> a.file_types[i].count])
                  = Len(a.status.added) + Len(a.status.modified) + Len(a.status.deleted)
                    + Len(a.status.renamed)

\* Four paths of three categories, two of them golang, with files_changed 0.
C29_Witness ==
    \E c \in AnalysisCalls(calls) :
        /\ calls[c].value.file_types =
               <<[type |-> Chars("golang"), count |-> 2], [type |-> Chars("python"), count |-> 1],
                 [type |-> Chars("other"), count |-> 1]>>
        /\ calls[c].value.stats.files_changed = 0

-----------------------------------------------------------------------------
(* Properties of the command line workflow *)

EventsOf(kind) == {i \in DOMAIN run.events : run.events[i].kind = kind}

\* C5: in every workflow path (auto mode with GPT, interactive mode with GPT,
\* the menu entry 'Generate with GPT') a failure of the GPT message path, the
\* 'no diff content' error included, is caught and followed by the local
\* path producing the message: the run never ends on the failure.
C5_GPTFailureIsFollowedByLocalPath ==
    \A i \in EventsOf("gpt-failed") : \E j \in EventsOf("local") : j > i

\* C10: in automatic mode with a custom message the message is validated
\* before the commit is made.
C10_AutoCustomMessageIsValidated ==
    (options.auto /\ options.message # None) =>
        \A i \in EventsOf("commit") :
            \E j \in EventsOf("validate") :
                j < i /\ run.events[j].text = run.events[i].text

\* The run is past the analysis that opens autoCommit and interactiveCommit.
CommitMode == ~options.analyzeOnly /\ ~options.dryRun /\ analysis # None

\* C13: for the README Python example (only auth.py added, change type
\* feature, scope python, one file changed) the three local suggestions are
\* 'feat(python): add auth', 'feat(python): implement auth' and
\* 'feat: update 1 file', in this order.
C13_ReadmePythonSuggestions ==
    (/\ Completed("suggestMultipleMessages")
     /\ Get(returned).count = 3
     /\ actionVerbs = ACTION_VERBS
     /\ Get(analysis).status = Status(<<Chars("auth.py")>>, <<>>, <<>>, <<>>)
     /\ Get(analysis).change_type = Chars("feature")
     /\ Get(analysis).scope = Some(Chars("python"))
     /\ Get(analysis).stats.files_changed = 1) =>
        Get(returned).value =
            <<Chars("feat(python): add auth"), Chars("feat(python): implement auth"),
              Chars("feat: update 1 file")>>

\* C11: commitWithMessage is only invoked in a run in which the repository
\* check passed, checkStagedChanges read a nonblank staged diff before it,
\* neither --analyze-only nor --dry-run is selected (whatever --auto says) and
\* the status of the analysis names a path; with an empty status the workflow
\* ends with the result false, having raised nothing and committed nothing.
C11_CommitOnlyAfterEveryGuard ==
    /\ \A i \in EventsOf("commit") :
          /\ git.isRepo
          /\ \E j \in EventsOf("checkStagedChanges") : j < i /\ run.events[j].text # <<>>
          /\ ~options.analyzeOnly /\ ~options.dryRun
          /\ analysis # None /\ AllFiles(Get(analysis).status) # <<>>
    /\ (CommitMode /\ AllFiles(Get(analysis).status) = <<>>) =>
          /\ run.pc = "done" /\ run.exit = Some(1)
          /\ EventsOf("commit") = {} /\ EventsOf("gpt-failed") = {}

\* A commit made by --stage-all --auto in a repository with nothing staged before.
C11_Witness ==
    /\ EventsOf("commit") # {}
    /\ options.stageAll /\ options.auto
    /\ run.exit = Some(0)

Interactive == ~options.auto /\ ~options.analyzeOnly /\ ~options.dryRun

\* C12: in interactive mode every commit comes after the validation of the
\* message it commits, after 'continue anyway' was confirmed when that
\* validation failed, and after 'proceed' was confirmed; Cancel, an empty custom
\* message, declining 'continue anyway' and declining 'proceed' each end the
\* workflow with the result false and no commit.
C12_InteractiveCommitIsConfirmed ==
    Interactive =>
        /\ \A i \in EventsOf("commit") :
              \E j \in EventsOf("validate"), k \in EventsOf("confirm") :
                  /\ j < k /\ k < i
                  /\ run.events[j].text = run.events[i].text
                  /\ run.events[k].text = "proceed"
                  /\ \/ Get(run.validation).ok
                     \/ \E c \in EventsOf("confirm") :
                           j < c /\ c < k /\ run.events[c].text = "continueAnyway"
        /\ \A i \in EventsOf("cancelled") :
              /\ i = Len(run.events)
              /\ run.pc = "done" /\ run.exit = Some(1)
              /\ EventsOf("commit") = {}

\* A custom message with warnings, committed after both confirmations.
C12_Witness ==
    /\ Interactive
    /\ EventsOf("commit") # {}
    /\ ~Get(run.validation).ok
    /\ Get(run.finalMessage) = Chars("Fix: Login.")
    /\ run.exit = Some(0)

\* C28: at most one request is sent to the external generator in a run: a
\* failed attempt is followed by the local path at once and by no second
\* request, the up-front generation and the menu entry 'Generate with GPT'
\* exclude each other, and without an API key no request is sent.
C28_AtMostOneRequest ==
    /\ Cardinality(EventsOf("request")) <= 1
    /\ ~apiKey => EventsOf("request") = {}
    /\ \A i \in EventsOf("request"), j \in EventsOf("gpt-failed") :
          j > i => (j = i + 1 /\ j + 1 \in EventsOf("local"))

\* An interactive run whose up-front request failed, which went on with the
\* local suggestions to a commit.
C28_Witness ==
    /\ Interactive
    /\ run.useGPT
    /\ EventsOf("request") # {} /\ EventsOf("gpt-failed") # {}
    /\ EventsOf("commit") # {}

====
